---- MODULE Spec2Model ----
(***************************************************************************)
(* Model of the edge-scoring and grading pipeline of nba-edge-finder:      *)
(* advanced_analytics.py, the game fetcher, the performance factors, the   *)
(* streak detector and the edge finder of nba_engine.py,                   *)
(* parlay_calculator.py, the view of app.py, auth.py and the store of      *)
(* glitched_props.py.                                                      *)
(*                                                                         *)
(* Number representation.  The program computes with Python floats; the    *)
(* model computes with exact rationals kept as scaled integers:            *)
(*   - a probability is held in tenths of a percent (697 is 69.7),         *)
(*   - every field the code rounds to 2 decimals is held in hundredths     *)
(*     (ev 1455 is 14.55 dollars, kelly_fraction 1600 is 16.0),            *)
(*   - every field the code rounds to 1 decimal is held in tenths.         *)
(* round() is Python's round-half-to-even, applied to the exact value.     *)
(*                                                                         *)
(* A call of a function of the program is a state machine of two steps:    *)
(* fn names the function, args holds its arguments (drawn by Init), pc is   *)
(* "call" before and "done" after the call, and ret is Pending until the   *)
(* call action stores the value the function returns or the exception it   *)
(* raises.  Functions with a loop over requests or players take one step   *)
(* per pass and keep their loop variables in ret; the operations on the    *)
(* glitched props are one step each on the stored list in disk.            *)
(***************************************************************************)
EXTENDS Integers, Sequences, FiniteSets, TLC

VARIABLES fn, args, ret, pc, disk

vars == <<fn, args, ret, pc, disk>>

\* disk holds the files the program keeps: the list stored in
\* glitched_props.json and the cache directory as the set of cache keys that
\* have a cache file.  Both are empty before the first write.
NoFiles == [ glitched_props |-> <<>>, cache |-> {} ]

Pending == [tag |-> "pending"]

\* A Python value that is a number, or None where the number is missing.
PyNone == [tag |-> "None"]

Num(n) == [tag |-> "num", val |-> n]

----------------------------------------------------------------------------
(* Arithmetic helpers *)

Abs(x) == IF x < 0 THEN 0 - x ELSE x

Min2(a, b) == IF a <= b THEN a ELSE b

Max2(a, b) == IF a >= b THEN a ELSE b

\* round(n / d) to the nearest integer, ties to the even one (d > 0).
RoundHalfEven(n, d) ==
    LET q == n \div d
        r == n % d
    IN  IF 2 * r < d THEN q
        ELSE IF 2 * r > d THEN q + 1
        ELSE IF q % 2 = 0 THEN q ELSE q + 1

\* Mutant of RoundFloat: the displacement of the float is ignored.
RoundFloatAsExact(n, d, err) == RoundHalfEven(n, d)

\* round(x) of the float x that the code computed for the exact value n / d.
\* A float is the exact value or lies just beside it: err is the sign of
\* x - n / d.  Only on a tie does the side decide the result.
RoundFloat(n, d, err) ==
    LET q == n \div d
        r == n % d
    IN  IF 2 * r < d THEN q
        ELSE IF 2 * r > d THEN q + 1
        ELSE IF err > 0 THEN q + 1
        ELSE IF err < 0 THEN q
        ELSE IF q % 2 = 0 THEN q ELSE q + 1

----------------------------------------------------------------------------
(* Odds conversion: decimal_odds - 1 as the fraction OddsNum / OddsDen *)

OddsNum(odds) == IF odds > 0 THEN odds ELSE 100

OddsDen(odds) == IF odds > 0 THEN 100 ELSE Abs(odds)

----------------------------------------------------------------------------
(* calculate_expected_value(probability, odds, bet_amount)                 *)
(* probability in tenths of a percent, bet_amount in whole dollars.        *)

\* The sign and size of the unrounded ev: ev = EvNumerator / (1000 * OddsDen).
EvNumerator(probability, odds, bet_amount) ==
    bet_amount * (probability * OddsNum(odds)
                  - (1000 - probability) * OddsDen(odds))

\* (prob_decimal * decimal_odds - 1) * 1000 * OddsDen: the numerator shared by
\* market_edge and the Kelly fraction.
EdgeNumerator(probability, odds) ==
    probability * (OddsNum(odds) + OddsDen(odds)) - 1000 * OddsDen(odds)

\* 'is_positive_ev': ev > 0, on the unrounded ev.
IsPositiveEv(probability, odds, bet_amount) ==
    EvNumerator(probability, odds, bet_amount) > 0

\* Mutant of KellyFraction: the cap max(0, min(k, 0.25)) is left out.
KellyFractionUncapped(probability, odds) ==
    RoundHalfEven(10 * EdgeNumerator(probability, odds), OddsNum(odds))

\* kelly_fraction = max(0, min(k, 0.25)), then round(kelly_fraction * 100, 2);
\* k = EdgeNumerator / (1000 * OddsNum).  Result in hundredths of a percent.
KellyFraction(probability, odds) ==
    LET n == EdgeNumerator(probability, odds)
        a == OddsNum(odds)
    IN  IF n <= 0 THEN 0
        ELSE IF 4 * n >= 1000 * a THEN 2500
        ELSE RoundHalfEven(10 * n, a)

\* 'ev': round(ev, 2), in cents, of the float ev lying on the side err of
\* its exact value.
EvField(probability, odds, bet_amount, err) ==
    RoundFloat(EvNumerator(probability, odds, bet_amount), 10 * OddsDen(odds), err)

calculate_expected_value(probability, odds, bet_amount) ==
    LET a == OddsNum(odds)
        b == OddsDen(odds)
    IN  [ ev                  |-> EvField(probability, odds, bet_amount, 0),
          ev_percentage       |-> RoundHalfEven(10 * EvNumerator(probability, odds, 1), b),
          market_edge         |-> RoundHalfEven(10 * EdgeNumerator(probability, odds), a + b),
          implied_probability |-> RoundHalfEven(10000 * b, a + b),
          kelly_fraction      |-> KellyFraction(probability, odds),
          payout              |-> RoundHalfEven(100 * bet_amount * a, b),
          is_positive_ev      |-> IsPositiveEv(probability, odds, bet_amount) ]

----------------------------------------------------------------------------
(* Inputs of calculate_expected_value *)

\* Probabilities are drawn every ProbStep tenths of a percent over [0, 100],
\* together with the values where the code's bands and signs change.
ProbStep == 50

Probabilities ==
    { i * ProbStep : i \in 0 .. (1000 \div ProbStep) }
        \cup { 339, 524, 550, 697, 750, 1000 }

\* American odds, nonzero: favourites, even money and underdogs.
OddsValues == { -230, -150, -110, -100, 100, 150, 195 }

MaxBetAmount == 3

BetAmounts == (1 .. MaxBetAmount) \cup { 100 }

InitEV ==
    /\ fn = "calculate_expected_value"
    /\ args \in [ probability : Probabilities, odds : OddsValues,
                  bet_amount : BetAmounts ]
    /\ ret = Pending
    /\ disk = NoFiles
    /\ pc = "call"

CallCalculateExpectedValue ==
    /\ fn = "calculate_expected_value"
    /\ pc = "call"
    /\ pc' = "done"
    /\ ret' = calculate_expected_value(args.probability, args.odds, args.bet_amount)
    /\ UNCHANGED <<fn, args, disk>>

NextEV == CallCalculateExpectedValue

SpecEV == InitEV /\ [][NextEV]_vars

EVReturned == fn = "calculate_expected_value" /\ pc = "done"

\* C1: the EVResult has is_positive_ev true exactly when its ev field is
\* strictly greater than 0 (an ev field of 0 has is_positive_ev false).
C1_PositiveEvIffEvFieldPositive ==
    EVReturned => (ret.is_positive_ev <=> ret.ev > 0)

\* C3 as stated: the kelly_fraction field lies in [0, 0.25]; the field is held
\* in hundredths, so 0.25 is 25.
C3_KellyFieldWithinQuarter ==
    EVReturned => (ret.kelly_fraction >= 0 /\ ret.kelly_fraction <= 25)

\* C3 amended: the kelly_fraction field is a percentage and lies in [0, 25]
\* (2500 hundredths): the fraction is capped at 0.25 and then multiplied by 100.
C3_KellyFieldWithinPercentCap ==
    EVReturned => (ret.kelly_fraction >= 0 /\ ret.kelly_fraction <= 2500)

\* The cap is reached: 75% at -110 has a Kelly fraction above 0.25.
C3_Witness ==
    /\ EVReturned
    /\ args.probability = 750 /\ args.odds = -110
    /\ ret.kelly_fraction = 2500

----------------------------------------------------------------------------
(* Two calls of calculate_expected_value with the same odds and bet_amount  *)
(* and two probabilities, for the relation between their ev fields.         *)

\* Probabilities of the pairs: every tenth of a percent up to
\* MaxPairProbability, and values across the range.
MaxPairProbability == 12

PairProbabilities == (0 .. MaxPairProbability) \cup { 250, 500, 524, 525, 1000 }

PairOdds == { -110, 100, 150 }

PairBetAmounts == { 1, 2, 100 }

\* A float can equal the exact ev only if that is a binary fraction; of the
\* values that matter to round(ev, 2), the ties, those are the multiples of
\* 1/8.  ev = EvNumerator / (1000 * OddsDen) dollars.
EvRepresentable(probability, odds, bet_amount) ==
    (8 * EvNumerator(probability, odds, bet_amount)) % (1000 * OddsDen(odds)) = 0

\* The sides on which the float ev can lie of its exact value.
EvErrors(probability, odds, bet_amount) ==
    IF EvRepresentable(probability, odds, bet_amount) THEN { -1, 0, 1 } ELSE { -1, 1 }

\* p1 < p2, each call with the side of its float ev.
InitEVPair ==
    /\ fn = "calculate_expected_value_pair"
    /\ args \in [ p1 : PairProbabilities, p2 : PairProbabilities, odds : PairOdds,
                  bet_amount : PairBetAmounts, err1 : { -1, 0, 1 }, err2 : { -1, 0, 1 } ]
    /\ args.p1 < args.p2
    /\ args.err1 \in EvErrors(args.p1, args.odds, args.bet_amount)
    /\ args.err2 \in EvErrors(args.p2, args.odds, args.bet_amount)
    /\ ret = Pending
    /\ disk = NoFiles
    /\ pc = "call"

CallCalculateExpectedValuePair ==
    /\ fn = "calculate_expected_value_pair"
    /\ pc = "call"
    /\ pc' = "done"
    /\ ret' = [ ev1 |-> EvField(args.p1, args.odds, args.bet_amount, args.err1),
                ev2 |-> EvField(args.p2, args.odds, args.bet_amount, args.err2) ]
    /\ UNCHANGED <<fn, args, disk>>

NextEVPair == CallCalculateExpectedValuePair

SpecEVPair == InitEVPair /\ [][NextEVPair]_vars

EVPairReturned == fn = "calculate_expected_value_pair" /\ pc = "done"

\* The exact ev of the second call less that of the first, in units of
\* 1 / (1000 * OddsDen) dollars; one cent is 10 * OddsDen units.
EvGap ==
    EvNumerator(args.p2, args.odds, args.bet_amount)
        - EvNumerator(args.p1, args.odds, args.bet_amount)

\* The unrounded float values differ by at least one cent.
EvGapAtLeastOneCent ==
    \/ EvGap > 10 * OddsDen(args.odds)
    \/ EvGap = 10 * OddsDen(args.odds) /\ args.err2 >= args.err1

\* C11: for fixed nonzero odds and bet_amount > 0 and p1 < p2 the ev fields
\* satisfy ev(p1) <= ev(p2), and ev(p1) < ev(p2) when the unrounded values
\* differ by at least one cent.
C11_EvMonotoneInProbability ==
    EVPairReturned =>
        /\ ret.ev1 <= ret.ev2
        /\ EvGapAtLeastOneCent => ret.ev1 < ret.ev2

\* Two exact ties one cent apart (-1.985 and -1.975 at +150 with 2 dollars),
\* the floats on the same side: the rounded values differ.
C11_Witness ==
    /\ EVPairReturned
    /\ args.odds = 150 /\ args.bet_amount = 2 /\ args.p1 = 3 /\ args.p2 = 5
    /\ args.err1 = -1 /\ args.err2 = -1
    /\ ret.ev1 = -199 /\ ret.ev2 = -198

----------------------------------------------------------------------------
(* Python dictionaries.  A dictionary the program returns with a fixed set  *)
(* of keys is a record of these keys.  A dictionary with optional keys is a *)
(* record with tag "dict" whose field keys is the set of the keys it holds. *)
(* d.get(k, default) is Get.  None is PyNone.  A dictionary or None in a    *)
(* condition (`if factors:`) is Truthy.                                     *)

HasKey(d, k) == IF "keys" \in DOMAIN d THEN k \in d.keys ELSE k \in DOMAIN d

Get(d, k, default) == IF HasKey(d, k) THEN d[k] ELSE default

Truthy(d) == d.tag = "dict" /\ d.keys # {}

EmptyDict == [tag |-> "dict", keys |-> {}]

----------------------------------------------------------------------------
(* calculate_confidence_score(probability, ev_data, edge_data, factors,     *)
(* streak_info).  Score contributions are held in 1/10000 of a point.       *)

\* prob_score = probability * 0.4
ProbScore(probability) == 400 * probability

\* ev_score = min(25, max(0, ev_pct * 2.5)) if ev > 0 else 0
EvScore(ev_data) ==
    IF ev_data.ev > 0
    THEN Min2(250000, Max2(0, 250 * ev_data.ev_percentage))
    ELSE 0

\* edge_score = min(20, max(0, market_edge * 1.33)) if market_edge > 0 else 0
EdgeScore(ev_data) ==
    IF ev_data.market_edge > 0
    THEN Min2(200000, Max2(0, 133 * ev_data.market_edge))
    ELSE 0

\* The streak bonus: everything happens inside `if streak_info and
\* streak_info.get('active')`.
StreakScore(streak_info) ==
    IF ~ (Truthy(streak_info) /\ Get(streak_info, "active", FALSE))
    THEN 0
    ELSE
      LET base      == Min2(100000, 25000 * Get(streak_info, "streak_count", 0))
          analytics == Get(streak_info, "analytics", PyNone)
          adjustment == IF Truthy(analytics) /\ Truthy(Get(analytics, "ev_adjustment", PyNone))
                        THEN Get(analytics.ev_adjustment, "adjustment_pct", 0)
                        ELSE 0
          \* max(-5, min(5, adjustment / 2))
          adjusted  == base + Max2(-50000, Min2(50000, 5000 * adjustment))
          risk      == IF Truthy(analytics) /\ Truthy(Get(analytics, "regression", PyNone))
                       THEN Get(analytics.regression, "risk_level", "low")
                       ELSE "low"
      IN  IF risk = "high" THEN Max2(0, adjusted - 50000)
          ELSE IF risk = "medium" THEN Max2(0, adjusted - 20000)
          ELSE adjusted

\* The factors bonus.
FactorScore(factors) ==
    IF ~ Truthy(factors) THEN 0
    ELSE
      LET cv == Get(factors, "minutes_cv", 0)
      IN  (IF Get(factors, "minutes_trend", "None") = "up" THEN 20000 ELSE 0)
        + (IF cv # 0 /\ cv < 15 THEN 20000 ELSE 0)
        + (IF ~ Get(factors, "recent_dnp", FALSE) THEN 10000 ELSE 0)

\* Mutant of ClampConfidence: the upper clamp min(100, .) is left out.
ClampConfidenceNoCeiling(raw_score) == RoundHalfEven(Max2(0, raw_score), 1000)

\* confidence_score = round(min(100, max(0, raw_score)), 1), in tenths.
ClampConfidence(raw_score) ==
    RoundHalfEven(Min2(1000000, Max2(0, raw_score)), 1000)

\* The letter grade of a confidence_score (in tenths).
ConfidenceGrade(confidence_score) ==
    IF confidence_score >= 950 THEN "A+"
    ELSE IF confidence_score >= 900 THEN "A"
    ELSE IF confidence_score >= 850 THEN "A-"
    ELSE IF confidence_score >= 800 THEN "B+"
    ELSE IF confidence_score >= 750 THEN "B"
    ELSE IF confidence_score >= 700 THEN "B-"
    ELSE IF confidence_score >= 650 THEN "C+"
    ELSE IF confidence_score >= 600 THEN "C"
    ELSE IF confidence_score >= 550 THEN "C-"
    ELSE IF confidence_score >= 500 THEN "D"
    ELSE "F"

\* Mutant of RiskFactors: a recent DNP adds nothing.
RiskFactorsWithoutDnp(probability, ev_data, factors, streak_info) ==
      (IF probability < 600 THEN 20 ELSE IF probability < 700 THEN 10 ELSE 0)
    + (IF ev_data.ev < 0 THEN 20 ELSE IF ev_data.ev < 500 THEN 10 ELSE 0)
    + (IF Truthy(factors) /\ Get(factors, "minutes_cv", 0) > 20 THEN 10 ELSE 0)
    + (IF Truthy(factors) /\ Get(factors, "minutes_trend", "None") = "down" THEN 10 ELSE 0)
    + (IF ~ Truthy(streak_info) \/ ~ Get(streak_info, "active", FALSE) THEN 5 ELSE 0)

\* risk_factors, in tenths.
RiskFactors(probability, ev_data, factors, streak_info) ==
      (IF probability < 600 THEN 20 ELSE IF probability < 700 THEN 10 ELSE 0)
    + (IF ev_data.ev < 0 THEN 20 ELSE IF ev_data.ev < 500 THEN 10 ELSE 0)
    + (IF Truthy(factors) /\ Get(factors, "minutes_cv", 0) > 20 THEN 10 ELSE 0)
    + (IF Truthy(factors) /\ Get(factors, "recent_dnp", FALSE) THEN 20 ELSE 0)
    + (IF Truthy(factors) /\ Get(factors, "minutes_trend", "None") = "down" THEN 10 ELSE 0)
    + (IF ~ Truthy(streak_info) \/ ~ Get(streak_info, "active", FALSE) THEN 5 ELSE 0)

RiskTier(risk_factors) ==
    IF risk_factors <= 10 THEN "Low"
    ELSE IF risk_factors <= 30 THEN "Medium"
    ELSE "High"

\* raw_score, the sum of the five contributions.
RawScore(probability, ev_data, factors, streak_info) ==
    ProbScore(probability) + EvScore(ev_data) + EdgeScore(ev_data)
        + StreakScore(streak_info) + FactorScore(factors)

\* risk_multiplier, in tenths.
RiskMultiplier(risk_tier) ==
    CASE risk_tier = "Low"    -> 10
      [] risk_tier = "Medium" -> 7
      [] risk_tier = "High"   -> 4
      [] OTHER                -> 5

\* base_stake = kelly * risk_multiplier * confidence_multiplier as a multiple
\* of 10^-8: kelly_fraction is in hundredths of a percent, the multiplier in
\* tenths, confidence_score in tenths of a point.
BaseStake(ev_data, risk_tier, confidence_score) ==
    Get(ev_data, "kelly_fraction", 0) * RiskMultiplier(risk_tier) * confidence_score

\* (min_stake, max_stake) of the confidence tier, as multiples of 10^-8.
StakeLimits(confidence_score) ==
    IF confidence_score >= 900 THEN <<3000000, 5000000>>
    ELSE IF confidence_score >= 800 THEN <<2000000, 4000000>>
    ELSE IF confidence_score >= 700 THEN <<1000000, 3000000>>
    ELSE IF confidence_score >= 600 THEN <<500000, 2000000>>
    ELSE <<500000, 1000000>>

\* Mutant of SuggestedStake: the stake limits are not applied.
SuggestedStakeUnlimited(ev_data, risk_tier, confidence_score) ==
    BaseStake(ev_data, risk_tier, confidence_score)

\* suggested_stake = max(min_stake, min(max_stake, base_stake)).
SuggestedStake(ev_data, risk_tier, confidence_score) ==
    Max2(StakeLimits(confidence_score)[1],
         Min2(StakeLimits(confidence_score)[2],
              BaseStake(ev_data, risk_tier, confidence_score)))

\* stake_label of a suggested_stake_pct in hundredths of a percent.
StakeLabel(suggested_stake_pct) ==
    IF suggested_stake_pct >= 400 THEN "MAX BET"
    ELSE IF suggested_stake_pct >= 300 THEN "Strong"
    ELSE IF suggested_stake_pct >= 200 THEN "Standard"
    ELSE IF suggested_stake_pct >= 100 THEN "Light"
    ELSE "Minimal"

\* The stake fields of the result: suggested_stake_pct = round(stake * 100, 2)
\* in hundredths of a percent, units = round(stake * 100, 1) in tenths.
StakeFields(suggested_stake) ==
    [ suggested_stake_pct |-> RoundHalfEven(suggested_stake, 10000),
      units               |-> RoundHalfEven(suggested_stake, 100000),
      stake_label         |-> StakeLabel(RoundHalfEven(suggested_stake, 10000)) ]

calculate_confidence_score(probability, ev_data, factors, streak_info) ==
    LET confidence_score ==
            ClampConfidence(RawScore(probability, ev_data, factors, streak_info))
        risk_factors == RiskFactors(probability, ev_data, factors, streak_info)
        stake == StakeFields(SuggestedStake(ev_data, RiskTier(risk_factors),
                                            confidence_score))
    IN  [ confidence_score |-> confidence_score,
          grade            |-> ConfidenceGrade(confidence_score),
          risk_tier        |-> RiskTier(risk_factors),
          risk_factors     |-> risk_factors,
          suggested_stake_pct |-> stake.suggested_stake_pct,
          units               |-> stake.units,
          stake_label         |-> stake.stake_label,
          breakdown        |->
            [ probability_contribution |-> RoundHalfEven(ProbScore(probability), 1000),
              ev_contribution          |-> RoundHalfEven(EvScore(ev_data), 1000),
              edge_contribution        |-> RoundHalfEven(EdgeScore(ev_data), 1000),
              streak_contribution      |-> RoundHalfEven(StreakScore(streak_info), 1000),
              factor_contribution      |-> RoundHalfEven(FactorScore(factors), 1000) ] ]

----------------------------------------------------------------------------
(* Inputs of calculate_confidence_score *)

\* The (recent_dnp, injury_risk) pairs get_player_performance_factors can
\* produce: injury_risk = recent_dnp > 0 or len(dnp_games) > 0.
DnpFlags == { <<FALSE, FALSE>>, <<FALSE, TRUE>>, <<TRUE, TRUE>> }

\* factors as the scorer reads them: None, {}, a dictionary holding nothing
\* but an injury_risk flag, a dictionary as get_player_performance_factors
\* builds it (no minutes_cv key), or one that carries a minutes_cv.
ConfidenceFactors ==
    { PyNone, EmptyDict,
      [ tag |-> "dict", keys |-> {"injury_risk"}, injury_risk |-> TRUE ] }
    \cup { [ tag |-> "dict", keys |-> {"minutes_trend", "recent_dnp", "injury_risk"},
             minutes_trend |-> t, recent_dnp |-> d[1], injury_risk |-> d[2] ] :
           t \in {"up", "down", "stable"}, d \in DnpFlags }
    \cup { [ tag |-> "dict",
             keys |-> {"minutes_trend", "recent_dnp", "injury_risk", "minutes_cv"},
             minutes_trend |-> t, recent_dnp |-> d[1], injury_risk |-> d[2],
             minutes_cv |-> cv ] :
           t \in {"up", "stable"}, d \in DnpFlags, cv \in { 0, 10, 25 } }

MaxStreakCount == 3

\* The nested streak analytics: absent, or with an EV adjustment and a
\* regression risk level.
StreakAnalytics ==
    { PyNone }
    \cup { [ tag |-> "dict", keys |-> {"ev_adjustment", "regression"},
             ev_adjustment |-> [tag |-> "dict", keys |-> {"adjustment_pct"},
                                adjustment_pct |-> a],
             regression    |-> [tag |-> "dict", keys |-> {"risk_level"},
                                risk_level |-> r] ] :
           a \in { -20, 4, 20 }, r \in {"low", "medium", "high"} }

ConfidenceStreaks ==
    { PyNone }
    \cup { [ tag |-> "dict", keys |-> {"active", "streak_count", "analytics"},
             active |-> FALSE, streak_count |-> 0, analytics |-> PyNone ] }
    \cup { [ tag |-> "dict", keys |-> {"active", "streak_count", "analytics"},
             active |-> FALSE, streak_count |-> 1, analytics |-> an ] :
           an \in StreakAnalytics }
    \cup { [ tag |-> "dict", keys |-> {"active", "streak_count", "analytics"},
             active |-> TRUE, streak_count |-> c, analytics |-> an ] :
           c \in 1 .. MaxStreakCount, an \in StreakAnalytics }

ConfidenceProbabilities == { 0, 500, 550, 600, 697, 750, 850, 1000 }

ConfidenceOdds == { -150, -110, 150 }

ConfidenceEvData == calculate_expected_value(args.probability, args.odds, 100)

InitConfidence ==
    /\ fn = "calculate_confidence_score"
    /\ args \in [ probability : ConfidenceProbabilities, odds : ConfidenceOdds,
                  factors : ConfidenceFactors, streak_info : ConfidenceStreaks ]
    /\ ret = Pending
    /\ disk = NoFiles
    /\ pc = "call"

\* The EVResult handed to the scorer is the one calculate_expected_value
\* returns for the probability at the given odds and the default bet of 100.
CallCalculateConfidenceScore ==
    /\ fn = "calculate_confidence_score"
    /\ pc = "call"
    /\ pc' = "done"
    /\ ret' = calculate_confidence_score(args.probability, ConfidenceEvData,
                                          args.factors, args.streak_info)
    /\ UNCHANGED <<fn, args, disk>>

NextConfidence == CallCalculateConfidenceScore

SpecConfidence == InitConfidence /\ [][NextConfidence]_vars

ConfidenceReturned == fn = "calculate_confidence_score" /\ pc = "done"

\* The scale F < D < C- < C < C+ < B- < B < B+ < A- < A < A+.
GradeRank(grade) ==
    CASE grade = "F"  -> 0
      [] grade = "D"  -> 1
      [] grade = "C-" -> 2
      [] grade = "C"  -> 3
      [] grade = "C+" -> 4
      [] grade = "B-" -> 5
      [] grade = "B"  -> 6
      [] grade = "B+" -> 7
      [] grade = "A-" -> 8
      [] grade = "A"  -> 9
      [] grade = "A+" -> 10

\* C2: the confidence_score returned lies in [0, 100], and the grade is a
\* non-decreasing function of the score alone: the grade the scorer gives any
\* other score is not lower when that score is higher, not higher when it is
\* lower, and the same when the score is the same.
C2_ScoreInRangeGradeMonotone ==
    ConfidenceReturned =>
        /\ ret.confidence_score >= 0
        /\ ret.confidence_score <= 1000
        /\ \A s \in 0 .. 1000 :
              /\ s >= ret.confidence_score
                    => GradeRank(ConfidenceGrade(s)) >= GradeRank(ret.grade)
              /\ s <= ret.confidence_score
                    => GradeRank(ConfidenceGrade(s)) <= GradeRank(ret.grade)

\* The clamp acts at the top: a raw score above 100 is returned as 100, A+.
C2_Witness ==
    /\ ConfidenceReturned
    /\ RawScore(args.probability, ConfidenceEvData, args.factors, args.streak_info) > 1000000
    /\ ret.confidence_score = 1000
    /\ ret.grade = "A+"

\* The clamp acts at the bottom as well: a negative raw score is returned as 0.
C2_WitnessFloor ==
    /\ ConfidenceReturned
    /\ RawScore(args.probability, ConfidenceEvData, args.factors, args.streak_info) < 0
    /\ ret.confidence_score = 0
    /\ ret.grade = "F"

\* The bonuses the factors earn, in tenths of a point: 2 for a minutes trend
\* up, 2 for a minutes_cv below 15, 1 for recent_dnp not set.
FactorBonuses(factors) ==
      (IF Get(factors, "minutes_trend", "None") = "up" THEN 20 ELSE 0)
    + (IF HasKey(factors, "minutes_cv") /\ factors.minutes_cv < 15 THEN 20 ELSE 0)
    + (IF ~ Get(factors, "recent_dnp", FALSE) THEN 10 ELSE 0)

\* C20: factor_contribution is the sum of the three bonuses, +2 for a
\* minutes trend up, +2 whenever minutes_cv is below 15, +1 whenever
\* recent_dnp is not set; it is at most 5, and 0 only when no bonus
\* condition holds or the factors are absent.
C20_FactorContributionIsSumOfBonuses ==
    ConfidenceReturned =>
        /\ ret.breakdown.factor_contribution <= 50
        /\ Truthy(args.factors) =>
              ret.breakdown.factor_contribution = FactorBonuses(args.factors)
        /\ ret.breakdown.factor_contribution = 0 =>
              (~ Truthy(args.factors) \/ FactorBonuses(args.factors) = 0)

\* The streak bonus as a sum of parts each applied on its own condition:
\* min(10, 2.5 * streak_count) for an active streak, the clamped half of the
\* EV adjustment wherever the analytics carry one, and the regression
\* penalty, floored at 0, wherever the analytics name a risk level.
StreakScoreOfParts(streak_info) ==
    LET active    == Truthy(streak_info) /\ Get(streak_info, "active", FALSE)
        base      == IF active
                     THEN Max2(0, Min2(100000, 25000 * Get(streak_info, "streak_count", 0)))
                     ELSE 0
        analytics == IF Truthy(streak_info)
                     THEN Get(streak_info, "analytics", PyNone) ELSE PyNone
        adjustment == IF Truthy(analytics) /\ Truthy(Get(analytics, "ev_adjustment", PyNone))
                      THEN Get(analytics.ev_adjustment, "adjustment_pct", 0)
                      ELSE 0
        adjusted  == base + Max2(-50000, Min2(50000, 5000 * adjustment))
        risk      == IF Truthy(analytics) /\ Truthy(Get(analytics, "regression", PyNone))
                     THEN Get(analytics.regression, "risk_level", "low")
                     ELSE "low"
    IN  IF risk = "high" THEN Max2(0, adjusted - 50000)
        ELSE IF risk = "medium" THEN Max2(0, adjusted - 20000)
        ELSE adjusted

\* C21: streak_contribution is min(10, 2.5 * streak_count) when the streak
\* is active and 0 otherwise, plus clamp(ev_adjustment / 2, -5, 5) whenever
\* the analytics carry an ev_adjustment, minus 5 for regression risk high or
\* 2 for medium with the result floored at 0; adjustment and penalty are
\* applied whether or not the streak is active.
C21_StreakAdjustmentIndependentOfActive ==
    ConfidenceReturned =>
        ret.breakdown.streak_contribution
            = RoundHalfEven(StreakScoreOfParts(args.streak_info), 1000)

\* The band of suggested_stake_pct, in hundredths of a percent, that goes
\* with a confidence_score.
StakeBandOf(confidence_score) ==
    IF confidence_score >= 900 THEN <<300, 500>>
    ELSE IF confidence_score >= 800 THEN <<200, 400>>
    ELSE IF confidence_score >= 700 THEN <<100, 300>>
    ELSE IF confidence_score >= 600 THEN <<50, 200>>
    ELSE <<50, 100>>

\* kelly * risk_multiplier * confidence_score / 100 of the call, as a
\* multiple of 10^-8, from the EVResult and the returned tier and score.
StakeProduct ==
    ConfidenceEvData.kelly_fraction * ret.confidence_score
        * (CASE ret.risk_tier = "Low" -> 10 [] ret.risk_tier = "Medium" -> 7
             [] ret.risk_tier = "High" -> 4)

StakeProductInBand ==
    /\ StakeProduct >= 10000 * StakeBandOf(ret.confidence_score)[1]
    /\ StakeProduct <= 10000 * StakeBandOf(ret.confidence_score)[2]

\* C22: the suggested stake lies inside the band selected by
\* confidence_score and is kelly * risk_multiplier * confidence_score / 100
\* (to the two decimals reported) whenever that product is inside the band;
\* MAX BET occurs only with confidence_score >= 80 and Minimal only with
\* confidence_score < 70.
C22_StakeInsideConfidenceBand ==
    ConfidenceReturned =>
        /\ ret.suggested_stake_pct >= StakeBandOf(ret.confidence_score)[1]
        /\ ret.suggested_stake_pct <= StakeBandOf(ret.confidence_score)[2]
        /\ StakeProductInBand =>
              ret.suggested_stake_pct = RoundHalfEven(StakeProduct, 10000)
        /\ ret.stake_label = "MAX BET" => ret.confidence_score >= 800
        /\ ret.stake_label = "Minimal" => ret.confidence_score < 700

\* A product strictly inside its band is returned as it is.
C22_Witness ==
    /\ ConfidenceReturned
    /\ StakeProduct > 10000 * StakeBandOf(ret.confidence_score)[1]
    /\ StakeProduct < 10000 * StakeBandOf(ret.confidence_score)[2]
    /\ ret.suggested_stake_pct = RoundHalfEven(StakeProduct, 10000)

\* A product above the band is cut to the top of the band: a MAX BET.
C22_WitnessMaxBet ==
    /\ ConfidenceReturned
    /\ StakeProduct > 10000 * StakeBandOf(ret.confidence_score)[2]
    /\ ret.stake_label = "MAX BET"

\* A product below the band is raised to the bottom of the band.
C22_WitnessMinimal ==
    /\ ConfidenceReturned
    /\ StakeProduct < 10000 * StakeBandOf(ret.confidence_score)[1]
    /\ ret.stake_label = "Minimal"

\* The case of the risk example: probability 55 and a losing EVResult.
RiskExampleCase ==
    /\ ConfidenceReturned
    /\ args.probability = 550
    /\ ConfidenceEvData.ev < 0
    /\ Truthy(args.factors)

\* C12 as stated: with injury_risk true, probability 55 and ev < 0 the
\* reported risk_factors is at least 6 and the risk_tier is High.
C12_InjuryRiskGivesSixRiskFactors ==
    (RiskExampleCase /\ Get(args.factors, "injury_risk", FALSE)) =>
        /\ ret.risk_factors >= 60
        /\ ret.risk_tier = "High"

\* C12 amended: the 2 points are given for recent_dnp; with recent_dnp true,
\* probability 55 and ev < 0 the reported risk_factors is at least 6, and with
\* injury_risk true alone it is at least 4; the risk_tier is High in both.
C12_RecentDnpGivesSixRiskFactors ==
    /\ (RiskExampleCase /\ Get(args.factors, "recent_dnp", FALSE)) =>
          /\ ret.risk_factors >= 60
          /\ ret.risk_tier = "High"
    /\ (RiskExampleCase /\ Get(args.factors, "injury_risk", FALSE)) =>
          /\ ret.risk_factors >= 40
          /\ ret.risk_tier = "High"

\* A recent DNP at probability 55 and ev < 0, with an active streak and no
\* other risk: exactly 2 + 2 + 2.
C12_Witness ==
    /\ RiskExampleCase
    /\ Get(args.factors, "recent_dnp", FALSE)
    /\ Get(args.factors, "injury_risk", FALSE)
    /\ ret.risk_factors = 60
    /\ ret.risk_tier = "High"

----------------------------------------------------------------------------
(* calculate_streak(player_name, line, stat_type, season, min_streak)       *)
(* games_list is what fetch_recent_games returned: the stat values of the   *)
(* games, most recent first; the empty sequence stands for None and [].     *)

\* Mutant of Hit: a value equal to the line is taken as an OVER hit.
HitTieCountsAsOver(stat_value, line) ==
    IF stat_value >= line THEN "OVER" ELSE "UNDER"

\* The classification of one game inside the loop; "TIE" is the break of the
\* else branch.
Hit(stat_value, line) ==
    IF stat_value > line THEN "OVER"
    ELSE IF stat_value < line THEN "UNDER"
    ELSE "TIE"

\* The for loop from game i on, with the loop variables streak_type and
\* current_streak; returns <<current_streak, streak_type>>.
RECURSIVE StreakLoop(_, _, _, _, _)
StreakLoop(games_list, line, i, streak_type, current_streak) ==
    IF i > Len(games_list) THEN <<current_streak, streak_type>>
    ELSE
      LET hit == Hit(games_list[i], line)
      IN  IF hit = "TIE" THEN <<current_streak, streak_type>>
          ELSE IF streak_type = "None"
               THEN StreakLoop(games_list, line, i + 1, hit, 1)
          ELSE IF streak_type = hit
               THEN StreakLoop(games_list, line, i + 1, streak_type, current_streak + 1)
          ELSE <<current_streak, streak_type>>

\* Mutant of calculate_streak: the early return for too few games is left
\* out.
CalculateStreakWithoutEarlyReturn(games_list, line, min_streak) ==
    LET r == StreakLoop(games_list, line, 1, "None", 0)
    IN  [ streak_count |-> r[1], streak_type |-> r[2],
          active |-> r[1] >= min_streak ]

calculate_streak(games_list, line, min_streak) ==
    IF games_list = <<>> \/ Len(games_list) < min_streak
    THEN [ streak_count |-> 0, streak_type |-> "None", active |-> FALSE ]
    ELSE
      LET r == StreakLoop(games_list, line, 1, "None", 0)
      IN  [ streak_count |-> r[1], streak_type |-> r[2],
            active |-> r[1] >= min_streak ]

----------------------------------------------------------------------------
(* Inputs of calculate_streak *)

MaxGames == 4

MaxStatValue == 3

MaxMinStreak == 3

StatValues == 1 .. MaxStatValue

SeqsUpTo(S, n) == UNION { [1 .. k -> S] : k \in 0 .. n }

InitStreak ==
    /\ fn = "calculate_streak"
    /\ args \in [ games_list : SeqsUpTo(StatValues, MaxGames),
                  line : 1 .. 2,
                  min_streak : 1 .. MaxMinStreak ]
    /\ ret = Pending
    /\ disk = NoFiles
    /\ pc = "call"

CallCalculateStreak ==
    /\ fn = "calculate_streak"
    /\ pc = "call"
    /\ pc' = "done"
    /\ ret' = calculate_streak(args.games_list, args.line, args.min_streak)
    /\ UNCHANGED <<fn, args, disk>>

NextStreak == CallCalculateStreak

SpecStreak == InitStreak /\ [][NextStreak]_vars

StreakReturned == fn = "calculate_streak" /\ pc = "done"

\* The first k observations are all strictly above the line.
PrefixAllOver(k) == \A i \in 1 .. k : args.games_list[i] > args.line

\* The first k observations are all strictly below the line.
PrefixAllUnder(k) == \A i \in 1 .. k : args.games_list[i] < args.line

\* The length of the longest prefix lying strictly on one side of the line.
LongestOneSidedPrefix ==
    CHOOSE k \in 0 .. Len(args.games_list) :
        /\ PrefixAllOver(k) \/ PrefixAllUnder(k)
        /\ \A j \in (k + 1) .. Len(args.games_list) :
              ~ (PrefixAllOver(j) \/ PrefixAllUnder(j))

\* C4: given at least min_streak observations, streak_count is the length of
\* the longest prefix of observations all strictly above or all strictly
\* below the line, streak_type is that side (null for the empty prefix), and
\* active is streak_count >= min_streak; observations all equal to the line
\* give count 0 and active false.
C4_StreakIsLongestOneSidedPrefix ==
    (StreakReturned /\ Len(args.games_list) >= args.min_streak) =>
        LET k == LongestOneSidedPrefix
        IN  /\ ret.streak_count = k
            /\ ret.streak_type = IF k = 0 THEN "None"
                                 ELSE IF PrefixAllOver(k) THEN "OVER" ELSE "UNDER"
            /\ ret.active = (k >= args.min_streak)
            /\ (\A i \in 1 .. Len(args.games_list) : args.games_list[i] = args.line)
                  => (ret.streak_count = 0 /\ ret.active = FALSE)

\* An active streak ended by a game on the line: two games over, then a tie.
C4_Witness ==
    /\ StreakReturned
    /\ Len(args.games_list) >= 3
    /\ args.games_list[1] > args.line /\ args.games_list[2] > args.line
    /\ args.games_list[3] = args.line
    /\ args.min_streak = 2
    /\ ret = [ streak_count |-> 2, streak_type |-> "OVER", active |-> TRUE ]

\* C19: with fewer than min_streak observations, none included, the result
\* is streak_count 0, streak_type null and active false, whatever the
\* observations and the line are.
C19_TooFewGamesGivesNoStreak ==
    (StreakReturned /\ Len(args.games_list) < args.min_streak) =>
        ret = [ streak_count |-> 0, streak_type |-> "None", active |-> FALSE ]

\* Two games over the line when three are asked for: no streak is reported,
\* not even an inactive one of two.
C19_Witness ==
    /\ StreakReturned
    /\ Len(args.games_list) = 2
    /\ args.min_streak = 3
    /\ PrefixAllOver(2)
    /\ ret.streak_count = 0
    /\ ret.streak_type = "None"
    /\ ~ ret.active

\* No observation at all.
C19_WitnessNone ==
    /\ StreakReturned
    /\ args.games_list = <<>>
    /\ ret.streak_count = 0
    /\ ~ ret.active

----------------------------------------------------------------------------
(* grade_matchup(edge_data, factors, matchup_data)                          *)
(* difference, advantage and minutes_variance are held in tenths; the score *)
(* is held in whole points (every term is a multiple of 5).                 *)

\* A key an edge record does not hold (the field is never read: see Get).
Absent == [tag |-> "absent"]

\* Base score from probability.
MatchupProbabilityPoints(probability) ==
    IF probability >= 850 THEN 30
    ELSE IF probability >= 800 THEN 25
    ELSE IF probability >= 750 THEN 20
    ELSE IF probability >= 700 THEN 15
    ELSE 10

\* Edge size.
MatchupDifferencePoints(difference) ==
    IF difference >= 50 THEN 20
    ELSE IF difference >= 30 THEN 15
    ELSE IF difference >= 20 THEN 10
    ELSE 5

\* Performance factors.
MatchupFactorPoints(factors) ==
    IF ~ Truthy(factors) THEN 0
    ELSE
      LET trend == Get(factors, "performance_trend", "stable")
      IN  (IF trend = "up" THEN 10 ELSE IF trend = "down" THEN -10 ELSE 0)
        + (IF ~ Get(factors, "rotation_change", FALSE) THEN 5 ELSE -5)
        + (IF Get(factors, "injury_risk", FALSE) THEN -15
           ELSE IF ~ Get(factors, "recent_dnp", FALSE) THEN 5 ELSE 0)
        + (IF Get(factors, "minutes_variance", 1000) < 50 THEN 5 ELSE 0)

\* matchup_data.get('advantage', 0) is compared with numbers: a None raises.
MatchupAdvantageRaises(matchup_data) ==
    Truthy(matchup_data) /\ Get(matchup_data, "advantage", Num(0)) = PyNone

\* Matchup advantage.
MatchupAdvantagePoints(matchup_data) ==
    IF ~ Truthy(matchup_data) THEN 0
    ELSE
      LET advantage == Get(matchup_data, "advantage", Num(0)).val
      IN  IF advantage >= 30 THEN 15
          ELSE IF advantage >= 10 THEN 10
          ELSE IF advantage <= -20 THEN -10
          ELSE 0

\* edge_data.get('streak', {}).get(...): a streak of None has no get.
MatchupStreakRaises(edge_data) == Get(edge_data, "streak", EmptyDict) = PyNone

\* Streak bonus.
MatchupStreakPoints(edge_data) ==
    LET streak == Get(edge_data, "streak", EmptyDict)
    IN  IF Get(streak, "active", FALSE)
        THEN LET streak_count == Get(streak, "streak_count", 0)
             IN  IF streak_count >= 4 THEN 15
                 ELSE IF streak_count >= 2 THEN 10
                 ELSE 0
        ELSE 0

\* Mutant of MatchupGradeOf: the numeric values of D+ and D are exchanged.
MatchupGradeOfSwappedD(score) ==
    IF score >= 90 THEN <<"A+", 43>>
    ELSE IF score >= 85 THEN <<"A", 40>>
    ELSE IF score >= 80 THEN <<"A-", 37>>
    ELSE IF score >= 75 THEN <<"B+", 33>>
    ELSE IF score >= 70 THEN <<"B", 30>>
    ELSE IF score >= 65 THEN <<"B-", 27>>
    ELSE IF score >= 60 THEN <<"C+", 23>>
    ELSE IF score >= 55 THEN <<"C", 20>>
    ELSE IF score >= 50 THEN <<"C-", 17>>
    ELSE IF score >= 45 THEN <<"D+", 10>>
    ELSE IF score >= 40 THEN <<"D", 13>>
    ELSE <<"F", 0>>

\* Convert score to grade: <<grade, grade_numeric>>, grade_numeric in tenths.
MatchupGradeOf(score) ==
    IF score >= 90 THEN <<"A+", 43>>
    ELSE IF score >= 85 THEN <<"A", 40>>
    ELSE IF score >= 80 THEN <<"A-", 37>>
    ELSE IF score >= 75 THEN <<"B+", 33>>
    ELSE IF score >= 70 THEN <<"B", 30>>
    ELSE IF score >= 65 THEN <<"B-", 27>>
    ELSE IF score >= 60 THEN <<"C+", 23>>
    ELSE IF score >= 55 THEN <<"C", 20>>
    ELSE IF score >= 50 THEN <<"C-", 17>>
    ELSE IF score >= 45 THEN <<"D+", 13>>
    ELSE IF score >= 40 THEN <<"D", 10>>
    ELSE <<"F", 0>>

MatchupScore(edge_data, factors, matchup_data) ==
      MatchupProbabilityPoints(Get(edge_data, "probability", 0))
    + MatchupDifferencePoints(Get(edge_data, "difference", 0))
    + MatchupFactorPoints(factors)
    + MatchupAdvantagePoints(matchup_data)
    + MatchupStreakPoints(edge_data)

\* The exception grade_matchup raises, "none" when it returns.
GradeMatchupRaises(edge_data, factors, matchup_data) ==
    IF MatchupAdvantageRaises(matchup_data) THEN "TypeError"
    ELSE IF MatchupStreakRaises(edge_data) THEN "AttributeError"
    ELSE "none"

\* The value grade_matchup returns (when GradeMatchupRaises is "none").
grade_matchup(edge_data, factors, matchup_data) ==
    LET score == MatchupScore(edge_data, factors, matchup_data)
        g     == MatchupGradeOf(score)
    IN  [ grade         |-> g[1],
          grade_numeric |-> g[2],
          score         |-> 10 * score,
          confidence    |-> IF score >= 75 THEN "high"
                            ELSE IF score >= 60 THEN "medium" ELSE "low" ]

----------------------------------------------------------------------------
(* Inputs of grade_matchup *)

MatchupFactors ==
    { PyNone, EmptyDict }
    \cup { [ tag |-> "dict",
             keys |-> {"performance_trend", "rotation_change", "injury_risk",
                       "recent_dnp", "minutes_variance"},
             performance_trend |-> t, rotation_change |-> rc,
             injury_risk |-> ir[1], recent_dnp |-> ir[2],
             minutes_variance |-> mv ] :
           t \in {"up", "down", "stable"}, rc \in BOOLEAN,
           ir \in { <<FALSE, FALSE>>, <<TRUE, FALSE>>, <<TRUE, TRUE>> },
           mv \in { 20, 80 } }

\* A streak record as calculate_streak returns it with min_streak = 2.
StreakRecord(c) ==
    [ tag |-> "dict", keys |-> {"streak_count", "streak_type", "active"},
      streak_count |-> c, streak_type |-> IF c = 0 THEN "None" ELSE "OVER",
      active |-> c >= 2 ]

MaxEdgeStreak == 4

EdgeStreaks == { StreakRecord(c) : c \in { 0, 2, MaxEdgeStreak } }

\* matchup_data as analyze_player_vs_team_matchup returns it: None, or a
\* dictionary whose advantage is a number (tenths).
MatchupData(advantage) ==
    [ tag |-> "dict", keys |-> {"advantage", "games_vs_opponent"},
      advantage |-> advantage, games_vs_opponent |-> 1 ]

MatchupDatas == { PyNone } \cup { MatchupData(Num(a)) : a \in { -20, 0, 10, 30 } }

MatchupProbabilities == { 500, 700, 750, 800, 850 }

MatchupDifferences == { 10, 20, 30, 50 }

\* The edge context grade_matchup reads: probability, difference and streak.
MatchupEdge(probability, difference, streak) ==
    [ tag |-> "dict",
      keys |-> {"probability", "difference"}
               \cup (IF streak = Absent THEN {} ELSE {"streak"}),
      probability |-> probability, difference |-> difference, streak |-> streak ]

InitMatchup ==
    /\ fn = "grade_matchup"
    /\ args \in [ edge_data : { MatchupEdge(p, df, st) :
                                  p \in MatchupProbabilities,
                                  df \in MatchupDifferences,
                                  st \in EdgeStreaks \cup { Absent } },
                  factors : MatchupFactors,
                  matchup_data : MatchupDatas ]
    /\ ret = Pending
    /\ disk = NoFiles
    /\ pc = "call"

CallGradeMatchup ==
    /\ fn = "grade_matchup"
    /\ pc = "call"
    /\ pc' = "done"
    /\ ret' = grade_matchup(args.edge_data, args.factors, args.matchup_data)
    /\ UNCHANGED <<fn, args, disk>>

NextMatchup == CallGradeMatchup

SpecMatchup == InitMatchup /\ [][NextMatchup]_vars

MatchupReturned == fn = "grade_matchup" /\ pc = "done"

\* The table of the claim: <<inclusive lower bound, grade, grade_numeric>>;
\* the last tier, F, takes every other score (its bound is not read).
GradeTiers ==
    << <<90, "A+", 43>>, <<85, "A", 40>>, <<80, "A-", 37>>, <<75, "B+", 33>>,
       <<70, "B", 30>>, <<65, "B-", 27>>, <<60, "C+", 23>>, <<55, "C", 20>>,
       <<50, "C-", 17>>, <<45, "D+", 13>>, <<40, "D", 10>>,
       <<40, "F", 0>> >>

\* Tier i holds the scores from its lower bound up to the lower bound of the
\* tier above it.
InTier(score, i) ==
    /\ i < Len(GradeTiers) => score >= GradeTiers[i][1]
    /\ i > 1 => score < GradeTiers[i - 1][1]

\* C10: the pair (grade, grade_numeric) is the one the inclusive-lower-bound
\* table gives the raw score, the score falls in exactly one tier, and
\* grade_numeric is non-decreasing in the score.
C10_MatchupGradeFollowsTable ==
    MatchupReturned =>
        LET score == MatchupScore(args.edge_data, args.factors, args.matchup_data)
            tiers == { i \in 1 .. Len(GradeTiers) : InTier(score, i) }
        IN  /\ Cardinality(tiers) = 1
            /\ \A i \in tiers :
                  ret.grade = GradeTiers[i][2] /\ ret.grade_numeric = GradeTiers[i][3]
            /\ ret.score = 10 * score
            /\ \A s \in -30 .. 110 :
                  /\ s >= score => MatchupGradeOf(s)[2] >= ret.grade_numeric
                  /\ s <= score => MatchupGradeOf(s)[2] <= ret.grade_numeric

\* A score on a tier's lower bound is graded in that tier: 45 is D+.
C10_Witness ==
    /\ MatchupReturned
    /\ ret.score = 450
    /\ ret.grade = "D+"
    /\ ret.grade_numeric = 13

----------------------------------------------------------------------------
(* calculate_contextual_grade(edge_data, factors)                           *)
(* Averages and minutes_variance are held in tenths.                        *)

\* `if recent_avg and older_avg`: a number other than 0 (None is falsy).
NumTruthy(x) == x.tag = "num" /\ x.val # 0

\* Recent form.
ContextFormPoints(factors) ==
    IF ~ Truthy(factors) THEN 0
    ELSE
      LET recent_avg == Get(factors, "recent_stat_avg", Num(0))
          older_avg  == Get(factors, "older_stat_avg", Num(0))
      IN  IF NumTruthy(recent_avg) /\ NumTruthy(older_avg)
          THEN IF recent_avg.val > older_avg.val + 30 THEN 15
               ELSE IF recent_avg.val < older_avg.val - 30 THEN -10
               ELSE 0
          ELSE 0

\* Minutes trend.
ContextTrendPoints(factors) ==
    IF ~ Truthy(factors) THEN 0
    ELSE
      LET min_trend == Get(factors, "minutes_trend", "stable")
      IN  IF min_trend = "up" THEN 10
          ELSE IF min_trend = "down" THEN -10
          ELSE 0

\* Consistency.
ContextVariancePoints(factors) ==
    IF ~ Truthy(factors) THEN 0
    ELSE
      LET variance == Get(factors, "minutes_variance", 1000)
      IN  IF variance < 30 THEN 10
          ELSE IF variance < 50 THEN 5
          ELSE IF variance > 100 THEN -5
          ELSE 0

ContextGradeOf(context_score) ==
    IF context_score >= 25 THEN "A"
    ELSE IF context_score >= 15 THEN "B"
    ELSE IF context_score >= 5 THEN "C"
    ELSE IF context_score >= -5 THEN "D"
    ELSE "F"

\* context_factors: the label appended with each gain or loss, in order.
ContextFactorLabels(factors) ==
    (CASE ContextFormPoints(factors) = 15  -> <<"Strong recent form">>
       [] ContextFormPoints(factors) = -10 -> <<"Declining form">>
       [] OTHER -> <<>>)
    \o (CASE ContextTrendPoints(factors) = 10  -> <<"Increasing minutes">>
          [] ContextTrendPoints(factors) = -10 -> <<"Decreasing minutes">>
          [] OTHER -> <<>>)
    \o (CASE ContextVariancePoints(factors) = 10 -> <<"Very consistent">>
          [] ContextVariancePoints(factors) = 5  -> <<"Consistent">>
          [] ContextVariancePoints(factors) = -5 -> <<"Inconsistent minutes">>
          [] OTHER -> <<>>)

calculate_contextual_grade(edge_data, factors) ==
    LET context_score == ContextFormPoints(factors) + ContextTrendPoints(factors)
                             + ContextVariancePoints(factors)
    IN  [ grade |-> ContextGradeOf(context_score),
          score |-> 10 * context_score,
          factors |-> ContextFactorLabels(factors) ]

----------------------------------------------------------------------------
(* Inputs of calculate_contextual_grade *)

\* factors as get_player_performance_factors returns them (older_stat_avg is
\* None when fewer than 10 games were found).
PerformanceFactors(trend, rotation, dnp, injury, variance, recent, older) ==
    [ tag |-> "dict",
      keys |-> {"minutes_trend", "minutes_variance", "recent_dnp", "injury_risk",
                "rotation_change", "performance_trend", "recent_stat_avg",
                "older_stat_avg"},
      minutes_trend |-> trend, minutes_variance |-> variance,
      recent_dnp |-> dnp, injury_risk |-> injury, rotation_change |-> rotation,
      performance_trend |-> trend, recent_stat_avg |-> recent,
      older_stat_avg |-> older ]

\* Stat averages in tenths, as get_player_performance_factors reports them:
\* the older average is None with fewer than 10 games, and an average is 0
\* for a player who recorded nothing in the window.
ContextRecentAverages == { Num(0), Num(25), Num(180), Num(230), Num(231) }

ContextOlderAverages == { PyNone, Num(0), Num(31), Num(200), Num(210) }

ContextVariances == { 0, 29, 30, 49, 50, 100, 101 }

ContextFactors ==
    { PyNone, EmptyDict }
    \cup { PerformanceFactors(t, FALSE, FALSE, FALSE, v, r, o) :
             t \in {"up", "down", "stable"}, v \in ContextVariances,
             r \in ContextRecentAverages, o \in ContextOlderAverages }

InitContext ==
    /\ fn = "calculate_contextual_grade"
    /\ args \in [ edge_data : { EmptyDict }, factors : ContextFactors ]
    /\ ret = Pending
    /\ disk = NoFiles
    /\ pc = "call"

CallCalculateContextualGrade ==
    /\ fn = "calculate_contextual_grade"
    /\ pc = "call"
    /\ pc' = "done"
    /\ ret' = calculate_contextual_grade(args.edge_data, args.factors)
    /\ UNCHANGED <<fn, args, disk>>

NextContext == CallCalculateContextualGrade

SpecContext == InitContext /\ [][NextContext]_vars

ContextReturned == fn = "calculate_contextual_grade" /\ pc = "done"

\* The averages of the call when both are numbers, 0 included.
BothAveragesNumeric ==
    /\ Truthy(args.factors)
    /\ Get(args.factors, "recent_stat_avg", PyNone).tag = "num"
    /\ Get(args.factors, "older_stat_avg", PyNone).tag = "num"

RecentAboveOlder ==
    BothAveragesNumeric
        /\ args.factors.recent_stat_avg.val > args.factors.older_stat_avg.val + 30

RecentBelowOlder ==
    BothAveragesNumeric
        /\ args.factors.recent_stat_avg.val < args.factors.older_stat_avg.val - 30

\* The score without the recent-form part, in tenths.
ScoreWithoutForm ==
    10 * (ContextTrendPoints(args.factors) + ContextVariancePoints(args.factors))

\* C23: a recent stat average more than 3 above the older one gains 15 with
\* "Strong recent form", one more than 3 below it loses 10 with "Declining
\* form", for all numeric averages including 0; the grade is A from 25,
\* B from 15, C from 5, D from -5, else F.
C23_FormDeltaScoredForAllAverages ==
    ContextReturned =>
        /\ RecentAboveOlder =>
              /\ ret.score = ScoreWithoutForm + 150
              /\ \E i \in DOMAIN ret.factors : ret.factors[i] = "Strong recent form"
        /\ RecentBelowOlder =>
              /\ ret.score = ScoreWithoutForm - 100
              /\ \E i \in DOMAIN ret.factors : ret.factors[i] = "Declining form"
        /\ ret.grade = (IF ret.score >= 250 THEN "A"
                        ELSE IF ret.score >= 150 THEN "B"
                        ELSE IF ret.score >= 50 THEN "C"
                        ELSE IF ret.score >= -50 THEN "D"
                        ELSE "F")

----------------------------------------------------------------------------
(* enhance_edge_with_analytics(edge, default_odds)                          *)

\* The result of a call that raised.
Raised(exception) == [tag |-> "raise", exception |-> exception]

\* edge.get('streak', {}).get('active'): a streak of None has no get.
EnhanceStreakRaises(edge) == Get(edge, "streak", EmptyDict) = PyNone

\* streak_info = edge.get('streak', {}) if edge.get('streak', {}).get('active') else None
EnhanceStreakInfo(edge) ==
    LET streak == Get(edge, "streak", EmptyDict)
    IN  IF Get(streak, "active", FALSE) THEN streak ELSE PyNone

\* matchup_data = edge.get('beneficiary', {}).get('matchup_data') if edge.get('beneficiary') else None
EnhanceMatchupData(edge) ==
    LET beneficiary == Get(edge, "beneficiary", PyNone)
    IN  IF Truthy(beneficiary) THEN Get(beneficiary, "matchup_data", PyNone)
        ELSE PyNone

\* Mutant of EnhancedEdge: a new record of the analytics and the player is
\* returned instead of the edge itself with keys added.
EnhancedEdgeAsNewRecord(edge, default_odds) ==
    LET probability  == Get(edge, "probability", 0)
        factors      == Get(edge, "factors", EmptyDict)
        ev_data      == calculate_expected_value(probability, default_odds, 100)
    IN  [ tag |-> "dict",
          keys |-> {"player", "probability", "ev", "confidence", "matchup_grade",
                    "contextual_grade", "market_edge", "is_positive_ev"},
          player           |-> Get(edge, "player", PyNone),
          probability      |-> probability,
          ev               |-> ev_data,
          confidence       |-> calculate_confidence_score(probability, ev_data,
                                                          factors, EnhanceStreakInfo(edge)),
          matchup_grade    |-> grade_matchup(edge, factors, EnhanceMatchupData(edge)),
          contextual_grade |-> calculate_contextual_grade(edge, factors),
          market_edge      |-> ev_data.market_edge,
          is_positive_ev   |-> ev_data.is_positive_ev ]

\* The record after the assignments edge['ev'] = ... to
\* edge['is_positive_ev'] = ...: the keys added, the others kept.
EnhancedEdge(edge, default_odds) ==
    LET probability  == Get(edge, "probability", 0)
        factors      == Get(edge, "factors", EmptyDict)
        streak_info  == EnhanceStreakInfo(edge)
        matchup_data == EnhanceMatchupData(edge)
        ev_data      == calculate_expected_value(probability, default_odds, 100)
    IN  [ keys |-> edge.keys \cup {"ev", "confidence", "matchup_grade",
                                   "contextual_grade", "market_edge",
                                   "is_positive_ev"},
          ev               |-> ev_data,
          confidence       |-> calculate_confidence_score(probability, ev_data,
                                                          factors, streak_info),
          matchup_grade    |-> grade_matchup(edge, factors, matchup_data),
          contextual_grade |-> calculate_contextual_grade(edge, factors),
          market_edge      |-> ev_data.market_edge,
          is_positive_ev   |-> ev_data.is_positive_ev ] @@ edge

\* The statements in order: line 495 reads the streak, grade_matchup compares
\* the advantage; the first that raises ends the call.
enhance_edge_with_analytics(edge, default_odds) ==
    IF EnhanceStreakRaises(edge) THEN Raised("AttributeError")
    ELSE IF GradeMatchupRaises(edge, Get(edge, "factors", EmptyDict),
                               EnhanceMatchupData(edge)) # "none"
    THEN Raised(GradeMatchupRaises(edge, Get(edge, "factors", EmptyDict),
                                   EnhanceMatchupData(edge)))
    ELSE EnhancedEdge(edge, default_odds)

----------------------------------------------------------------------------
(* Inputs of enhance_edge_with_analytics *)

EdgeFactors ==
    { PyNone, EmptyDict,
      PerformanceFactors("stable", FALSE, FALSE, FALSE, 20, Num(250), PyNone),
      PerformanceFactors("up", FALSE, FALSE, FALSE, 40, Num(250), Num(200)),
      PerformanceFactors("down", TRUE, FALSE, TRUE, 120, Num(180), Num(240)),
      PerformanceFactors("stable", TRUE, TRUE, TRUE, 80, Num(0), Num(200)) }

\* beneficiary as identify_statistical_beneficiary returns it: its
\* matchup_data is None or what analyze_player_vs_team_matchup returned, whose
\* advantage is None when no overall average was available.
Beneficiary(matchup_data) ==
    [ tag |-> "dict", keys |-> {"player", "matchup_data"},
      player |-> "p", matchup_data |-> matchup_data ]

EdgeBeneficiaries ==
    { PyNone, Beneficiary(PyNone), Beneficiary(MatchupData(PyNone)) }
    \cup { Beneficiary(MatchupData(Num(a))) : a \in { -20, 30 } }

\* An edge record as check_for_edges builds it, for an OVER at a line of 20.5:
\* player, line, average, difference, recommendation, stat_type and
\* probability always present, factors, streak and beneficiary present
\* unless Absent.
Edge(player, probability, difference, factors, streak, beneficiary) ==
    [ tag |-> "dict",
      keys |-> {"player", "line", "average", "difference", "recommendation",
                "stat_type", "probability"}
               \cup (IF factors = Absent THEN {} ELSE {"factors"})
               \cup (IF streak = Absent THEN {} ELSE {"streak"})
               \cup (IF beneficiary = Absent THEN {} ELSE {"beneficiary"}),
      player |-> player, line |-> 205, average |-> 205 + difference,
      difference |-> difference, recommendation |-> "OVER", stat_type |-> "PTS",
      probability |-> probability,
      factors |-> factors, streak |-> streak, beneficiary |-> beneficiary ]

EdgeProbabilities == { 500, 524, 600, 700, 750, 850, 950 }

EdgeDifferences == { 21, 35, 60 }

DefaultOdds == -110

InitEnhance ==
    /\ fn = "enhance_edge_with_analytics"
    /\ args \in [ edge : { Edge("p", p, df, f, st, b) :
                             p \in EdgeProbabilities, df \in EdgeDifferences,
                             f \in EdgeFactors \cup { Absent },
                             st \in EdgeStreaks \cup { PyNone, Absent },
                             b \in EdgeBeneficiaries \cup { Absent } },
                  default_odds : { DefaultOdds } ]
    /\ ret = Pending
    /\ disk = NoFiles
    /\ pc = "call"

CallEnhanceEdgeWithAnalytics ==
    /\ fn = "enhance_edge_with_analytics"
    /\ pc = "call"
    /\ pc' = "done"
    /\ ret' = enhance_edge_with_analytics(args.edge, args.default_odds)
    /\ UNCHANGED <<fn, args, disk>>

NextEnhance == CallEnhanceEdgeWithAnalytics

SpecEnhance == InitEnhance /\ [][NextEnhance]_vars

EnhanceReturned == fn = "enhance_edge_with_analytics" /\ pc = "done"

\* C6: for an edge record that has a probability, whatever is missing of
\* factors, streak and matchup data (key absent, value null, matchup data
\* without an advantage number), the call does not raise and the record
\* carries ev, confidence, matchup_grade and contextual_grade.
C6_EnhanceToleratesMissingData ==
    EnhanceReturned =>
        /\ ret.tag # "raise"
        /\ {"ev", "confidence", "matchup_grade", "contextual_grade"} \subseteq ret.keys

\* The fields of an edge record that enhance_edge_with_analytics reads or
\* leaves alone.
EdgeInputFields ==
    {"player", "line", "average", "difference", "recommendation", "probability"}

\* C13: a call that returns has stored ev, computed from the record's
\* probability at the default odds, then the confidence computed from that
\* ev, then matchup_grade and contextual_grade; the top-level market_edge and
\* is_positive_ev equal those of ev; player, line, average, difference,
\* recommendation and probability are as they were.
C13_EnhanceAddsAnalyticsKeepsInput ==
    (EnhanceReturned /\ ret.tag # "raise") =>
        /\ {"ev", "confidence", "matchup_grade", "contextual_grade",
            "market_edge", "is_positive_ev"} \subseteq ret.keys
        /\ ret.ev = calculate_expected_value(args.edge.probability, DefaultOdds, 100)
        /\ ret.confidence.breakdown.ev_contribution
              = RoundHalfEven(EvScore(ret.ev), 1000)
        /\ ret.confidence.breakdown.edge_contribution
              = RoundHalfEven(EdgeScore(ret.ev), 1000)
        /\ ret.matchup_grade
              = grade_matchup(args.edge, Get(args.edge, "factors", EmptyDict),
                              EnhanceMatchupData(args.edge))
        /\ ret.contextual_grade
              = calculate_contextual_grade(args.edge, Get(args.edge, "factors", EmptyDict))
        /\ ret.market_edge = ret.ev.market_edge
        /\ ret.is_positive_ev = ret.ev.is_positive_ev
        /\ EdgeInputFields \subseteq ret.keys
        /\ \A k \in EdgeInputFields : ret[k] = args.edge[k]

\* An edge with factors, an active streak and matchup data is enriched: a
\* positive ev whose market edge is copied to the top level, the input kept.
C13_Witness ==
    /\ EnhanceReturned
    /\ ret.tag = "dict"
    /\ HasKey(args.edge, "factors") /\ Truthy(args.edge.factors)
    /\ EnhanceStreakInfo(args.edge) # PyNone
    /\ EnhanceMatchupData(args.edge) # PyNone
    /\ args.edge.probability = 600
    /\ ret.ev.ev > 0
    /\ ret.market_edge = ret.ev.market_edge
    /\ ret.market_edge > 0
    /\ ret.is_positive_ev
    /\ ret.confidence.breakdown.ev_contribution > 0
    /\ ret.line = 205 /\ ret.recommendation = "OVER"

----------------------------------------------------------------------------
(* The filters of advanced_analytics.py over lists of enriched edges        *)

\* A list comprehension [e for e in edges if Keep(e)] is SelectSeq(edges, Keep).

EdgeProbability(e) == Get(e, "probability", 0)

EdgeEv(e) == Get(Get(e, "ev", EmptyDict), "ev", 0)

EdgeMarketEdge(e) == Get(e, "market_edge", 0)

EdgeGradeNumeric(e) == Get(Get(e, "matchup_grade", EmptyDict), "grade_numeric", 0)

EdgeInjuryRisk(e) == Get(Get(e, "factors", EmptyDict), "injury_risk", FALSE)

EdgeRotationChange(e) == Get(Get(e, "factors", EmptyDict), "rotation_change", FALSE)

\* Mutant of filter_by_probability: the failing edges are removed from the
\* list while a for loop walks it by index, so the edge that follows a removed
\* one is skipped.
RECURSIVE RemoveWhileIterating(_, _, _)
RemoveWhileIterating(edges, i, min_probability) ==
    IF i > Len(edges) THEN edges
    ELSE IF EdgeProbability(edges[i]) >= min_probability
         THEN RemoveWhileIterating(edges, i + 1, min_probability)
         ELSE RemoveWhileIterating(SubSeq(edges, 1, i - 1)
                                       \o SubSeq(edges, i + 1, Len(edges)),
                                   i + 1, min_probability)

filter_by_probability_in_place(edges, min_probability) ==
    RemoveWhileIterating(edges, 1, min_probability)

filter_by_probability(edges, min_probability) ==
    LET Keep(e) == EdgeProbability(e) >= min_probability
    IN  SelectSeq(edges, Keep)

\* grade_order.get(min_grade, 0.0), in tenths.
GradeOrder(min_grade) ==
    CASE min_grade = "A+" -> 43
      [] min_grade = "A"  -> 40
      [] min_grade = "A-" -> 37
      [] min_grade = "B+" -> 33
      [] min_grade = "B"  -> 30
      [] min_grade = "B-" -> 27
      [] min_grade = "C+" -> 23
      [] min_grade = "C"  -> 20
      [] min_grade = "C-" -> 17
      [] min_grade = "D+" -> 13
      [] min_grade = "D"  -> 10
      [] min_grade = "F"  -> 0
      [] OTHER -> 0

filter_by_grade(edges, min_grade) ==
    LET Keep(e) == EdgeGradeNumeric(e) >= GradeOrder(min_grade)
    IN  SelectSeq(edges, Keep)

filter_by_market_edge(edges, min_edge) ==
    LET Keep(e) == EdgeMarketEdge(e) >= min_edge
    IN  SelectSeq(edges, Keep)

filter_positive_ev(edges) ==
    LET Keep(e) == Get(e, "is_positive_ev", FALSE)
    IN  SelectSeq(edges, Keep)

\* filters.get(k) as a condition: the key is held and its value is not 0,
\* not "" and not False.
FilterSet(filters, k) ==
    /\ k \in filters.keys
    /\ filters[k] # (CASE k \in {"min_probability", "min_ev", "min_market_edge"} -> 0
                       [] k = "min_grade" -> ""
                       [] OTHER -> FALSE)

apply_tactical_filters(edges, filters) ==
    LET f1 == IF FilterSet(filters, "min_probability")
              THEN filter_by_probability(edges, filters.min_probability)
              ELSE edges
        f2 == IF FilterSet(filters, "min_grade")
              THEN filter_by_grade(f1, filters.min_grade)
              ELSE f1
        f3 == IF FilterSet(filters, "min_market_edge")
              THEN filter_by_market_edge(f2, filters.min_market_edge)
              ELSE f2
        f4 == IF FilterSet(filters, "positive_ev_only")
              THEN filter_positive_ev(f3)
              ELSE f3
        NoInjury(e) == ~ EdgeInjuryRisk(e)
        f5 == IF FilterSet(filters, "exclude_injuries")
              THEN SelectSeq(f4, NoInjury)
              ELSE f4
        NoRotation(e) == ~ EdgeRotationChange(e)
        f6 == IF FilterSet(filters, "exclude_rotation_changes")
              THEN SelectSeq(f5, NoRotation)
              ELSE f5
        EvAtLeast(e) == EdgeEv(e) >= filters.min_ev
    IN  IF FilterSet(filters, "min_ev") THEN SelectSeq(f6, EvAtLeast) ELSE f6

----------------------------------------------------------------------------
(* Inputs of apply_tactical_filters: lists of edges as get_edges_data hands *)
(* them over, each enriched by enhance_edge_with_analytics at -110.         *)

\* A value a configuration key holds (Absent when the key is not there).
Some(x) == [tag |-> "some", val |-> x]

RawEdgePool ==
    << Edge("p1", 750, 21,
            PerformanceFactors("up", FALSE, FALSE, FALSE, 40, Num(250), Num(200)),
            StreakRecord(2), Beneficiary(MatchupData(Num(30)))),
       Edge("p2", 750, 35,
            PerformanceFactors("down", TRUE, FALSE, TRUE, 120, Num(180), Num(240)),
            StreakRecord(0), Absent),
       Edge("p3", 500, 35, Absent, Absent, Absent),
       Edge("p4", 850, 21,
            PerformanceFactors("stable", FALSE, FALSE, FALSE, 20, Num(250), PyNone),
            StreakRecord(4), Beneficiary(PyNone)) >>

EdgePool == { EnhancedEdge(RawEdgePool[i], DefaultOdds) : i \in 1 .. Len(RawEdgePool) }

MaxEdges == 2

\* A filter configuration from the value, or Absent, of each of its keys.
FilterConfig(min_probability, min_ev, min_market_edge, min_grade, positive_ev_only, exclude_injuries, exclude_rotation_changes) ==
    LET Key(k, v) == IF v = Absent THEN {} ELSE {k}
        Value(v, default) == IF v = Absent THEN default ELSE v.val
    IN  [ keys |-> Key("min_probability", min_probability)
                   \cup Key("min_ev", min_ev)
                   \cup Key("min_market_edge", min_market_edge)
                   \cup Key("min_grade", min_grade)
                   \cup Key("positive_ev_only", positive_ev_only)
                   \cup Key("exclude_injuries", exclude_injuries)
                   \cup Key("exclude_rotation_changes", exclude_rotation_changes),
          min_probability  |-> Value(min_probability, 0),
          min_ev           |-> Value(min_ev, 0),
          min_market_edge  |-> Value(min_market_edge, 0),
          min_grade        |-> Value(min_grade, ""),
          positive_ev_only |-> Value(positive_ev_only, FALSE),
          exclude_injuries |-> Value(exclude_injuries, FALSE),
          exclude_rotation_changes |-> Value(exclude_rotation_changes, FALSE) ]

FilterConfigs ==
    { FilterConfig(mp, mev, mme, mg, pev, ei, er) :
        mp  \in { Absent, Some(0), Some(700) },
        mev \in { Absent, Some(0), Some(500) },
        mme \in { Absent, Some(0), Some(2500) },
        mg  \in { Absent, Some("B"), Some("F") },
        pev \in { Absent, Some(FALSE), Some(TRUE) },
        ei  \in { Absent, Some(TRUE) },
        er  \in { Absent, Some(TRUE) } }

InitFilter ==
    /\ fn = "apply_tactical_filters"
    /\ args \in [ edges : SeqsUpTo(EdgePool, MaxEdges), filters : FilterConfigs ]
    /\ ret = Pending
    /\ disk = NoFiles
    /\ pc = "call"

CallApplyTacticalFilters ==
    /\ fn = "apply_tactical_filters"
    /\ pc = "call"
    /\ pc' = "done"
    /\ ret' = apply_tactical_filters(args.edges, args.filters)
    /\ UNCHANGED <<fn, args, disk>>

NextFilter == CallApplyTacticalFilters

SpecFilter == InitFilter /\ [][NextFilter]_vars

FilterReturned == fn = "apply_tactical_filters" /\ pc = "done"

\* The criteria of the claim: every numeric or grade criterion whose key is
\* present, every switch that is present and on.
SatisfiesPresentCriteria(e, filters) ==
    /\ "min_probability" \in filters.keys
          => e.probability >= filters.min_probability
    /\ "min_ev" \in filters.keys => e.ev.ev >= filters.min_ev
    /\ "min_market_edge" \in filters.keys
          => e.market_edge >= filters.min_market_edge
    /\ "min_grade" \in filters.keys
          => e.matchup_grade.grade_numeric >= GradeOrder(filters.min_grade)
    /\ ("positive_ev_only" \in filters.keys /\ filters.positive_ev_only)
          => e.is_positive_ev
    /\ ("exclude_injuries" \in filters.keys /\ filters.exclude_injuries)
          => ~ EdgeInjuryRisk(e)
    /\ ("exclude_rotation_changes" \in filters.keys /\ filters.exclude_rotation_changes)
          => ~ EdgeRotationChange(e)

\* C5: apply_tactical_filters returns exactly the input edges, in input
\* order, that satisfy every criterion whose key is present in the config.
C5_FilterKeepsExactlySatisfying ==
    FilterReturned =>
        LET Keep(e) == SatisfiesPresentCriteria(e, args.filters)
        IN  ret = SelectSeq(args.edges, Keep)

\* C8: filtering the result again with the same config yields the same list.
C8_FilterIdempotent ==
    FilterReturned => apply_tactical_filters(ret, args.filters) = ret

\* A call that dropped one of two edges failing min_probability and kept none
\* that fails: the second pass has something to re-examine.
C8_Witness ==
    /\ FilterReturned
    /\ Len(args.edges) = 2
    /\ FilterSet(args.filters, "min_probability")
    /\ \A i \in 1 .. 2 : args.edges[i].probability < args.filters.min_probability
    /\ ret = <<>>

----------------------------------------------------------------------------
(* The sorts of the Sort/Filter Engine: sort_edges_by_ev,                   *)
(* sort_edges_by_market_edge and sort_edges_by_grade of                     *)
(* advanced_analytics.py and the in-place sorts of get_edges_data.          *)

\* The key function of each sort ("score" is the key of the parlay sort of
\* find_best_parlays).
SortKey(sort_by, x) ==
    CASE sort_by = "ev"          -> EdgeEv(x)
      [] sort_by = "market_edge" -> EdgeMarketEdge(x)
      [] sort_by = "probability" -> EdgeProbability(x)
      [] sort_by = "grade"       -> EdgeGradeNumeric(x)
      [] sort_by = "edge"        -> Abs(Get(x, "difference", 0))
      [] sort_by = "kelly"       -> Get(Get(x, "analytics", EmptyDict), "kelly_fraction", 0)
      [] sort_by = "score"       -> x.score
      [] OTHER                   -> EdgeEv(x)

\* x goes before y in the sorted list when its key is strictly on the wanted
\* side of y's key.
Before(kx, ky, reverse) == IF reverse THEN kx > ky ELSE kx < ky

\* Python's sorted(list, key, reverse): a stable sort, also with reverse=True
\* (elements with equal keys keep their order).  Insert puts x behind every
\* element that does not have to come after it.
RECURSIVE Insert(_, _, _, _)
Insert(sorted, x, sort_by, reverse) ==
    IF sorted = <<>> THEN <<x>>
    ELSE IF Before(SortKey(sort_by, x), SortKey(sort_by, Head(sorted)), reverse)
         THEN <<x>> \o sorted
         ELSE <<Head(sorted)>> \o Insert(Tail(sorted), x, sort_by, reverse)

RECURSIVE SortedFrom(_, _, _, _)
SortedFrom(done, rest, sort_by, reverse) ==
    IF rest = <<>> THEN done
    ELSE SortedFrom(Insert(done, Head(rest), sort_by, reverse), Tail(rest),
                    sort_by, reverse)

Reverse(seq) == [ i \in 1 .. Len(seq) |-> seq[Len(seq) + 1 - i] ]

\* Mutant of Sorted: reverse=True is done as an ascending sort followed by
\* reversing the list, which turns equal-key elements around.
SortedAscendingThenReversed(edges, sort_by, reverse) ==
    IF reverse THEN Reverse(SortedFrom(<<>>, edges, sort_by, FALSE))
    ELSE SortedFrom(<<>>, edges, sort_by, FALSE)

Sorted(edges, sort_by, reverse) == SortedFrom(<<>>, edges, sort_by, reverse)

sort_edges_by_ev(edges, reverse) == Sorted(edges, "ev", reverse)

sort_edges_by_market_edge(edges, reverse) == Sorted(edges, "market_edge", reverse)

sort_edges_by_grade(edges, reverse) == Sorted(edges, "grade", reverse)

\* The `Apply sorting` block of get_edges_data.
ApplySorting(filtered_edges, sort_by) ==
    IF sort_by = "ev" THEN sort_edges_by_ev(filtered_edges, TRUE)
    ELSE IF sort_by = "market_edge" THEN sort_edges_by_market_edge(filtered_edges, TRUE)
    ELSE IF sort_by = "probability" THEN Sorted(filtered_edges, "probability", TRUE)
    ELSE IF sort_by = "grade" THEN sort_edges_by_grade(filtered_edges, TRUE)
    ELSE IF sort_by = "edge" THEN Sorted(filtered_edges, "edge", TRUE)
    ELSE IF sort_by = "kelly" THEN Sorted(filtered_edges, "kelly", TRUE)
    ELSE sort_edges_by_ev(filtered_edges, TRUE)

----------------------------------------------------------------------------
(* Inputs of the sorts: lists of distinct enriched edges                    *)

MaxSortEdges == 3

InjectiveSeqsUpTo(S, n) ==
    { q \in SeqsUpTo(S, n) : \A i, j \in 1 .. Len(q) : q[i] = q[j] => i = j }

SortKeys == { "ev", "market_edge", "probability", "grade", "edge", "kelly" }

\* The three sort functions take the direction as a parameter.
InitSortFunction ==
    /\ fn \in { "sort_edges_by_ev", "sort_edges_by_market_edge", "sort_edges_by_grade" }
    /\ args \in [ edges : InjectiveSeqsUpTo(EdgePool, MaxSortEdges),
                  reverse : BOOLEAN ]
    /\ ret = Pending
    /\ disk = NoFiles
    /\ pc = "call"

\* get_edges_data sorts by the key the request names, "default" standing for
\* any other value.
InitApplySorting ==
    /\ fn = "get_edges_data.sort"
    /\ args \in [ edges : InjectiveSeqsUpTo(EdgePool, MaxSortEdges),
                  sort_by : SortKeys \cup { "default" } ]
    /\ ret = Pending
    /\ disk = NoFiles
    /\ pc = "call"

InitSort == InitSortFunction \/ InitApplySorting

CallSortEdgesByEv ==
    /\ fn = "sort_edges_by_ev"
    /\ pc = "call"
    /\ pc' = "done"
    /\ ret' = sort_edges_by_ev(args.edges, args.reverse)
    /\ UNCHANGED <<fn, args, disk>>

CallSortEdgesByMarketEdge ==
    /\ fn = "sort_edges_by_market_edge"
    /\ pc = "call"
    /\ pc' = "done"
    /\ ret' = sort_edges_by_market_edge(args.edges, args.reverse)
    /\ UNCHANGED <<fn, args, disk>>

CallSortEdgesByGrade ==
    /\ fn = "sort_edges_by_grade"
    /\ pc = "call"
    /\ pc' = "done"
    /\ ret' = sort_edges_by_grade(args.edges, args.reverse)
    /\ UNCHANGED <<fn, args, disk>>

CallApplySorting ==
    /\ fn = "get_edges_data.sort"
    /\ pc = "call"
    /\ pc' = "done"
    /\ ret' = ApplySorting(args.edges, args.sort_by)
    /\ UNCHANGED <<fn, args, disk>>

NextSort ==
    \/ CallSortEdgesByEv
    \/ CallSortEdgesByMarketEdge
    \/ CallSortEdgesByGrade
    \/ CallApplySorting

SpecSort == InitSort /\ [][NextSort]_vars

SortReturned ==
    /\ fn \in { "sort_edges_by_ev", "sort_edges_by_market_edge",
                "sort_edges_by_grade", "get_edges_data.sort" }
    /\ pc = "done"

\* The quantity the claim names for each sort: EV, market_edge, matchup
\* grade_numeric, probability, absolute difference, Kelly fraction.
ClaimedSortKey(x) ==
    CASE fn = "sort_edges_by_ev"          -> x.ev.ev
      [] fn = "sort_edges_by_market_edge" -> x.market_edge
      [] fn = "sort_edges_by_grade"       -> x.matchup_grade.grade_numeric
      [] OTHER ->
           CASE args.sort_by = "market_edge" -> x.market_edge
             [] args.sort_by = "grade"       -> x.matchup_grade.grade_numeric
             [] args.sort_by = "probability" -> x.probability
             [] args.sort_by = "edge"        -> Abs(x.difference)
             [] args.sort_by = "kelly"       -> x.ev.kelly_fraction
             [] OTHER                        -> x.ev.ev

\* The position of an edge of the input in a list (the input has no edge twice).
PositionIn(seq, x) == CHOOSE i \in 1 .. Len(seq) : seq[i] = x

\* C7: the sorted list is a permutation of the input, and two edges with
\* equal sort key are in it in the order they had in the input.
C7_SortIsStablePermutation ==
    SortReturned =>
        /\ Len(ret) = Len(args.edges)
        /\ { ret[i] : i \in 1 .. Len(ret) }
              = { args.edges[i] : i \in 1 .. Len(args.edges) }
        /\ \A i, j \in 1 .. Len(args.edges) :
              (i < j /\ ClaimedSortKey(args.edges[i]) = ClaimedSortKey(args.edges[j]))
                  => PositionIn(ret, args.edges[i]) < PositionIn(ret, args.edges[j])

\* A descending sort that moved an edge to the front past two edges of equal
\* key, which stay in their input order behind it.
C7_Witness ==
    /\ SortReturned
    /\ Len(args.edges) = 3
    /\ ClaimedSortKey(args.edges[1]) = ClaimedSortKey(args.edges[2])
    /\ ClaimedSortKey(args.edges[3]) > ClaimedSortKey(args.edges[1])
    /\ ret = << args.edges[3], args.edges[1], args.edges[2] >>

\* C14: after get_edges_data sorted by 'kelly', no edge with a smaller
\* ev.kelly_fraction precedes an edge with a larger one.
C14_KellySortDescendingByEvKelly ==
    (SortReturned /\ fn = "get_edges_data.sort" /\ args.sort_by = "kelly") =>
        \A i, j \in 1 .. Len(ret) :
            i < j => ret[i].ev.kelly_fraction >= ret[j].ev.kelly_fraction

----------------------------------------------------------------------------
(* Exact arithmetic on large naturals.  The products of a parlay (up to six *)
(* probabilities and the sixth power of the decimal odds) exceed the        *)
(* integers of the model checker, so they are kept as sequences of base     *)
(* 1000 digits, least significant first.                                    *)

BigBase == 1000

RECURSIVE BigMulCarry(_, _, _)
BigMulCarry(a, m, carry) ==
    IF a = <<>>
    THEN IF carry = 0 THEN <<>>
         ELSE <<carry % BigBase>> \o BigMulCarry(<<>>, m, carry \div BigBase)
    ELSE LET t == Head(a) * m + carry
         IN  <<t % BigBase>> \o BigMulCarry(Tail(a), m, t \div BigBase)

\* a * m for a natural m below 2000000.
BigMul(a, m) == BigMulCarry(a, m, 0)

\* The product of the naturals of a sequence, times a.
RECURSIVE BigMulAll(_, _)
BigMulAll(a, ms) ==
    IF ms = <<>> THEN a ELSE BigMulAll(BigMul(a, Head(ms)), Tail(ms))

RECURSIVE BigAddCarry(_, _, _)
BigAddCarry(a, b, carry) ==
    IF a = <<>> /\ b = <<>>
    THEN IF carry = 0 THEN <<>> ELSE <<carry>>
    ELSE LET x == IF a = <<>> THEN 0 ELSE Head(a)
             y == IF b = <<>> THEN 0 ELSE Head(b)
             t == x + y + carry
         IN  <<t % BigBase>>
                 \o BigAddCarry(IF a = <<>> THEN <<>> ELSE Tail(a),
                                IF b = <<>> THEN <<>> ELSE Tail(b),
                                t \div BigBase)

BigAdd(a, b) == BigAddCarry(a, b, 0)

\* Long division by a natural d below 2000000, from the most significant
\* digit i down: <<quotient, remainder>>.
RECURSIVE BigDivFrom(_, _, _, _)
BigDivFrom(a, i, d, rem) ==
    IF i = 0 THEN << <<>>, rem >>
    ELSE LET t    == rem * BigBase + a[i]
             rest == BigDivFrom(a, i - 1, d, t % d)
         IN  << rest[1] \o <<t \div d>>, rest[2] >>

BigDiv(a, d) == BigDivFrom(a, Len(a), d, 0)

\* floor(a / (d1 * d2 * ...)) by successive divisions: <<quotient, exact>>,
\* exact telling whether every division left no remainder.
RECURSIVE BigDivAll(_, _)
BigDivAll(a, ds) ==
    IF ds = <<>> THEN <<a, TRUE>>
    ELSE LET qr   == BigDiv(a, Head(ds))
             rest == BigDivAll(qr[1], Tail(ds))
         IN  << rest[1], rest[2] /\ qr[2] = 0 >>

\* The value of a sequence of digits that fits an integer.
RECURSIVE BigToInt(_)
BigToInt(a) == IF a = <<>> THEN 0 ELSE Head(a) + BigBase * BigToInt(Tail(a))

Big(n) == BigMul(<<1>>, n)

BigDigit(a, i) == IF i <= Len(a) THEN a[i] ELSE 0

\* a < b, comparing from digit i down.
RECURSIVE BigLessFrom(_, _, _)
BigLessFrom(a, b, i) ==
    IF i = 0 THEN FALSE
    ELSE IF BigDigit(a, i) # BigDigit(b, i) THEN BigDigit(a, i) < BigDigit(b, i)
    ELSE BigLessFrom(a, b, i - 1)

BigLess(a, b) == BigLessFrom(a, b, Max2(Len(a), Len(b)))

\* a - b for a >= b, digit i on, with the borrow.
RECURSIVE BigSubFrom(_, _, _, _)
BigSubFrom(a, b, i, borrow) ==
    IF i > Len(a) THEN <<>>
    ELSE LET t == a[i] - BigDigit(b, i) - borrow
         IN  IF t < 0 THEN <<t + BigBase>> \o BigSubFrom(a, b, i + 1, 1)
             ELSE <<t>> \o BigSubFrom(a, b, i + 1, 0)

BigSub(a, b) == BigSubFrom(a, b, 1, 0)

\* round(n / (d1 * d2 * ...)), ties to even, for a large natural n:
\* floor((2n + D) / 2D), less one on a tie that came out odd.
BigRoundHalfEven(n, ds) ==
    LET d  == BigMulAll(<<1>>, ds)
        qe == BigDivAll(BigAdd(BigMul(n, 2), d), <<2>> \o ds)
        q  == BigToInt(qe[1])
    IN  IF qe[2] /\ q % 2 = 1 THEN q - 1 ELSE q

----------------------------------------------------------------------------
(* calculate_parlay_payout(bets) for bets that all carry the odds -110, as  *)
(* find_best_parlays builds them: the decimal odds of a leg are 21/11.      *)
(* probabilities are the probabilities of the legs in tenths of a percent.  *)
(* The roundings are those of the exact quotients; where the exact value   *)
(* is a tie (52.875) the binary floating-point value of the code can lie    *)
(* just beside it and round the other way in the last digit.                *)

\* b^k as a sequence of factors below 2000000 whose product it is.
RECURSIVE PowerFactors(_, _, _)
PowerFactors(b, k, factor) ==
    IF k = 0 THEN (IF factor = 1 THEN <<>> ELSE <<factor>>)
    ELSE IF factor * b < 2000000 THEN PowerFactors(b, k - 1, factor * b)
    ELSE <<factor>> \o PowerFactors(b, k - 1, b)

Power(b, k) == PowerFactors(b, k, 1)

RECURSIVE IntPower(_, _)
IntPower(b, k) == IF k = 0 THEN 1 ELSE b * IntPower(b, k - 1)

\* round((a - b) / (d1 * d2 * ...)) for large naturals a and b, whatever
\* the sign of a - b.
BigRoundDifference(a, b, ds) ==
    IF BigLess(a, b) THEN 0 - BigRoundHalfEven(BigSub(b, a), ds)
    ELSE BigRoundHalfEven(BigSub(a, b), ds)

\* The fields of the payout that come from the odds alone.  Every leg
\* carries -110, so combined_decimal is (21/11)^k for k legs and these fields
\* depend on the number of legs only: combined_decimal - 1 = win / 11^k.
CombinedOdds ==
    [ k \in 2 .. 6 |->
        LET elevens    == Power(11, k)
            twentyones == Power(21, k)
            win        == Big(IntPower(21, k) - IntPower(11, k))
        IN  [ decimal_odds |-> BigRoundHalfEven(BigMul(Big(IntPower(21, k)), 1000), elevens),
              \* combined_decimal >= 2 for two and more legs at -110
              american_odds |-> BigToInt(BigDivAll(BigMul(win, 100), elevens)[1]),
              payout_per_100 |-> BigRoundHalfEven(BigMul(win, 10000), elevens),
              implied_probability |->
                  BigRoundHalfEven(BigMul(Big(IntPower(11, k)), 10000), twentyones),
              \* 100 over the denominator 1000^k * 11^k
              hundred |-> BigMul(BigMulAll(<<1>>, Power(1000, k) \o elevens), 10000) ] ]

calculate_parlay_payout(probabilities) ==
    LET k          == Len(probabilities)
        odds       == CombinedOdds[k]
        thousands  == Power(1000, k)
        elevens    == Power(11, k)
        twentyones == Power(21, k)
        \* combined_prob = prob / 1000^k
        prob       == BigMulAll(<<1>>, probabilities)
        \* combined_prob * (combined_decimal - 1) = prob_win / (1000^k * 11^k)
        prob_win   == BigSub(BigMulAll(prob, twentyones), BigMulAll(prob, elevens))
    IN  IF k < 2
        THEN [ valid |-> FALSE, error |-> "Parlay requires at least 2 bets" ]
        ELSE
          [ valid |-> TRUE,
            num_bets |-> k,
            combined_probability |-> BigRoundHalfEven(BigMul(prob, 10000), thousands),
            decimal_odds |-> odds.decimal_odds,
            american_odds |-> odds.american_odds,
            payout_per_100 |-> odds.payout_per_100,
            profit_per_100 |-> odds.payout_per_100,
            implied_probability |-> odds.implied_probability,
            \* combined_prob * 100 - (1 / combined_decimal) * 100, over the
            \* common denominator 1000^k * 21^k
            edge |-> BigRoundDifference(
                         BigMul(BigMulAll(prob, twentyones), 10000),
                         odds.hundred,
                         thousands \o twentyones),
            \* combined_prob * payout_100 - 100
            expected_value |->
                BigRoundDifference(BigMul(prob_win, 10000), odds.hundred,
                                   thousands \o elevens) ]

----------------------------------------------------------------------------
(* find_best_parlays(edges, parlay_size, max_recommendations) and           *)
(* recommend_parlays(edges)                                                  *)

\* itertools.combinations(range(from, n + 1), k): the increasing index
\* tuples in lexicographic order.
RECURSIVE Combinations(_, _, _)
Combinations(from, n, k) ==
    IF k = 0 THEN << <<>> >>
    ELSE IF n - from + 1 < k THEN <<>>
    ELSE LET with == Combinations(from + 1, n, k - 1)
         IN  [ i \in 1 .. Len(with) |-> <<from>> \o with[i] ]
               \o Combinations(from + 1, n, k)

\* The bet built for one edge of a combination; the odds are set to -110
\* whatever the probability.
ParlayBet(edge) ==
    [ player         |-> Get(edge, "player", ""),
      line           |-> Get(edge, "line", 0),
      recommendation |-> Get(edge, "recommendation", ""),
      probability    |-> Get(edge, "probability", 700),
      odds           |-> -110,
      edge           |-> Get(edge, "edge", 0) ]

\* The parlay appended for the bets of one combination and their payout.
ParlayOf(bets, payout_info) ==
    [ bets              |-> bets,
      payout            |-> payout_info,
      total_probability |-> payout_info.combined_probability,
      expected_value    |-> payout_info.expected_value,
      edge              |-> payout_info.edge,
      score             |-> payout_info.expected_value + payout_info.edge * 10 ]

\* payout_info = calculate_parlay_payout(bets): every bet carries -110.
ParlayOfBets(bets) ==
    ParlayOf(bets, calculate_parlay_payout([ i \in 1 .. Len(bets) |-> bets[i].probability ]))

\* The parlay of one combination (a tuple of indices into high_prob_edges).
Parlay(high_prob_edges, combo) ==
    ParlayOfBets([ i \in 1 .. Len(combo) |-> ParlayBet(high_prob_edges[combo[i]]) ])

\* The list parlays, in the order of all_combinations.
Parlays(high_prob_edges, all_combinations) ==
    [ i \in 1 .. Len(all_combinations) |-> Parlay(high_prob_edges, all_combinations[i]) ]

\* Mutant of FirstN: the list is not cut to max_recommendations.
FirstNUncut(parlays, max_recommendations) == parlays

\* parlays[:max_recommendations]
FirstN(parlays, max_recommendations) ==
    SubSeq(parlays, 1, Min2(max_recommendations, Len(parlays)))

\* find_best_parlays from its second early return on.
BestParlays(high_prob_edges, parlay_size, max_recommendations) ==
    IF Len(high_prob_edges) < parlay_size THEN <<>>
    ELSE FirstN(Sorted(Parlays(high_prob_edges,
                               Combinations(1, Len(high_prob_edges), parlay_size)),
                       "score", TRUE),
                max_recommendations)

\* Mutant of HighProbEdges: the 70% filter is left out.
HighProbEdgesUnfiltered(edges) == edges

\* high_prob_edges = [e for e in edges if e.get('probability', 0) >= 70.0]
HighProbEdges(edges) ==
    LET Keep(e) == Get(e, "probability", 0) >= 700
    IN  SelectSeq(edges, Keep)

find_best_parlays(edges, parlay_size, max_recommendations) ==
    IF Len(edges) < parlay_size THEN <<>>
    ELSE BestParlays(HighProbEdges(edges), parlay_size, max_recommendations)

recommend_parlays(edges) ==
    [ 2_man |-> find_best_parlays(edges, 2, 5),
      3_man |-> find_best_parlays(edges, 3, 5),
      4_man |-> find_best_parlays(edges, 4, 5),
      6_man |-> find_best_parlays(edges, 6, 3) ]

----------------------------------------------------------------------------
(* Inputs of find_best_parlays and recommend_parlays                        *)

MaxParlayEdges == 6

ParlayProbabilities == { 650, 700, 800 }

PlayerName(i) ==
    CASE i = 1 -> "p1" [] i = 2 -> "p2" [] i = 3 -> "p3" [] i = 4 -> "p4"
      [] i = 5 -> "p5" [] i = 6 -> "p6" [] i = 7 -> "p7" [] OTHER -> "p8"

\* A record as the tests hand it to find_best_parlays.
ParlayEdge(i, probability) ==
    [ tag |-> "dict", keys |-> {"player", "line", "recommendation", "probability"},
      player |-> PlayerName(i), line |-> 205, recommendation |-> "OVER",
      probability |-> probability ]

\* Lists of records of distinct players.
ParlayEdgeLists ==
    UNION { { [ i \in 1 .. n |-> ParlayEdge(i, ps[i]) ] :
                ps \in [1 .. n -> ParlayProbabilities] } :
            n \in 0 .. MaxParlayEdges }

\* Seven records, all of them eligible: the smallest input with more 6-leg
\* combinations (7) than recommend_parlays keeps (3).
SevenEligibleLists ==
    { [ i \in 1 .. 7 |-> ParlayEdge(i, ps[i]) ] : ps \in [1 .. 7 -> { 700, 800 }] }

ParlaySizes == { 2, 3, 4, 6 }

InitFindBestParlays ==
    /\ fn = "find_best_parlays"
    /\ args \in [ edges : ParlayEdgeLists \cup SevenEligibleLists,
                  parlay_size : ParlaySizes, max_recommendations : { 3 } ]
    /\ ret = Pending
    /\ disk = NoFiles
    /\ pc = "call"

InitRecommendParlays ==
    /\ fn = "recommend_parlays"
    /\ args \in [ edges : ParlayEdgeLists \cup SevenEligibleLists ]
    /\ ret = Pending
    /\ disk = NoFiles
    /\ pc = "call"

InitParlay == InitFindBestParlays \/ InitRecommendParlays

CallFindBestParlays ==
    /\ fn = "find_best_parlays"
    /\ pc = "call"
    /\ pc' = "done"
    /\ ret' = find_best_parlays(args.edges, args.parlay_size, args.max_recommendations)
    /\ UNCHANGED <<fn, args, disk>>

CallRecommendParlays ==
    /\ fn = "recommend_parlays"
    /\ pc = "call"
    /\ pc' = "done"
    /\ ret' = recommend_parlays(args.edges)
    /\ UNCHANGED <<fn, args, disk>>

NextParlay == CallFindBestParlays \/ CallRecommendParlays

SpecParlay == InitParlay /\ [][NextParlay]_vars

FindBestParlaysReturned == fn = "find_best_parlays" /\ pc = "done"

RecommendParlaysReturned == fn = "recommend_parlays" /\ pc = "done"

\* The number of input records with probability >= 70.
EligibleCount ==
    Cardinality({ i \in 1 .. Len(args.edges) : args.edges[i].probability >= 700 })

\* The list recommend_parlays returns for size k.
RecommendedFor(k) ==
    CASE k = 2 -> ret["2_man"] [] k = 3 -> ret["3_man"]
      [] k = 4 -> ret["4_man"] [] k = 6 -> ret["6_man"]

\* C9: for every parlay size k in {2,3,4,6}, when fewer than k input records
\* have probability >= 70, find_best_parlays and recommend_parlays return
\* the empty list for that k (and return: the call does not raise).
C9_TooFewLegsGivesEmptyList ==
    /\ (FindBestParlaysReturned /\ EligibleCount < args.parlay_size) => ret = <<>>
    /\ RecommendParlaysReturned =>
          \A k \in ParlaySizes : EligibleCount < k => RecommendedFor(k) = <<>>

\* Enough records but too few of them eligible: five records, three of them
\* at 70% or more, asked for 4-leg parlays; the 3-leg list is not empty.
C9_Witness ==
    /\ RecommendParlaysReturned
    /\ Len(args.edges) = 5
    /\ EligibleCount = 3
    /\ ret["4_man"] = <<>>
    /\ ret["3_man"] # <<>>

\* The input records with probability >= 70, in input order.
EligibleEdges ==
    LET Eligible(e) == e.probability >= 700
    IN  SelectSeq(args.edges, Eligible)

\* The k-element subsets of the positions 1 .. n.
KSubsets(n, k) == { S \in SUBSET (1 .. n) : Cardinality(S) = k }

\* The positions of a subset in increasing order.
Ascending(n, S) ==
    LET In(i) == i \in S
    IN  SelectSeq([ i \in 1 .. n |-> i ], In)

\* The positions among the eligible records of the players of a parlay's bets.
BetPositions(eligible, parlay) ==
    { j \in 1 .. Len(eligible) :
        \E b \in 1 .. Len(parlay.bets) : parlay.bets[b].player = eligible[j].player }

\* expected_value + 10 * edge of the parlay made of the records of a subset.
SubsetScore(eligible, S) ==
    LET payout == calculate_parlay_payout(
                      [ i \in 1 .. Cardinality(S) |->
                          eligible[Ascending(Len(eligible), S)[i]].probability ])
    IN  payout.expected_value + 10 * payout.edge

\* returned is the top N of the k-subsets of the eligible records: as many
\* as min(C(n,k), N), each the parlay of a subset of its own carrying that
\* subset's score, in non-increasing score order, and no subset left out
\* scores above a returned one.
IsTopN(returned, eligible, k, N) ==
    /\ Len(returned) = Min2(Cardinality(KSubsets(Len(eligible), k)), N)
    /\ \A i \in 1 .. Len(returned) :
          /\ BetPositions(eligible, returned[i]) \in KSubsets(Len(eligible), k)
          /\ Len(returned[i].bets) = k
          /\ returned[i].score
                = SubsetScore(eligible, BetPositions(eligible, returned[i]))
          /\ returned[i].score
                = returned[i].expected_value + 10 * returned[i].edge
    /\ \A i, j \in 1 .. Len(returned) :
          i < j => /\ returned[i].score >= returned[j].score
                   /\ BetPositions(eligible, returned[i])
                         # BetPositions(eligible, returned[j])
    \* the last one returned has the least score of those returned
    /\ \A S \in KSubsets(Len(eligible), k)
                \ { BetPositions(eligible, returned[i]) : i \in 1 .. Len(returned) } :
          SubsetScore(eligible, S) <= returned[Len(returned)].score

\* C15: with n >= k eligible records, find_best_parlays returns
\* min(C(n,k), N) parlays of distinct k-subsets in non-increasing order of
\* score = expected_value + 10 * edge, no omitted subset scoring above a
\* returned one; recommend_parlays does so with N = 5 for the sizes 2, 3, 4
\* and N = 3 for the size 6.
C15_BestParlaysAreTopNByScore ==
    /\ (FindBestParlaysReturned /\ EligibleCount >= args.parlay_size) =>
          IsTopN(ret, EligibleEdges, args.parlay_size, args.max_recommendations)
    /\ RecommendParlaysReturned =>
          \A k \in ParlaySizes :
              EligibleCount >= k
                  => IsTopN(RecommendedFor(k), EligibleEdges, k,
                            IF k = 6 THEN 3 ELSE 5)

\* Seven eligible records of two different probabilities: three of the seven
\* 6-leg parlays and five of the 21 2-leg parlays are recommended, the five
\* 3-leg parlays are not all of one score, and a 6-leg parlay left out scores
\* less than the last one kept.
C15_Witness ==
    /\ RecommendParlaysReturned
    /\ EligibleCount = 7
    /\ Len(ret["6_man"]) = 3
    /\ Len(ret["2_man"]) = 5
    /\ ret["3_man"][1].score > ret["3_man"][5].score
    /\ \E S \in KSubsets(7, 6) : SubsetScore(EligibleEdges, S) < ret["6_man"][3].score

----------------------------------------------------------------------------
(* get_edges_data of app.py, from the edges check_for_edges found to the    *)
(* high-probability view and the parlay recommendations.                    *)

\* calculate_oracle_confidence, in tenths of a unit.
calculate_oracle_confidence(edge_data, factors, streak_info) ==
    LET factor_part ==
            IF ~ Truthy(factors) THEN 0
            ELSE (IF Get(factors, "injury_risk", FALSE) THEN -20 ELSE 0)
               + (IF Get(factors, "recent_dnp", FALSE) THEN -15 ELSE 0)
               + (IF Get(factors, "rotation_change", FALSE) THEN -10 ELSE 0)
               + (IF Get(factors, "performance_trend", "None") = "up" THEN 5
                  ELSE IF Get(factors, "performance_trend", "None") = "down" THEN -5
                  ELSE 0)
               + (IF Get(factors, "minutes_variance", 1000) < 50 THEN 5 ELSE 0)
        streak_count == Get(streak_info, "streak_count", 0)
        streak_part ==
            IF Truthy(streak_info) /\ Get(streak_info, "active", FALSE)
            THEN IF streak_count >= 4 THEN 10
                 ELSE IF streak_count >= 3 THEN 5 ELSE 0
            ELSE 0
        diff == Get(edge_data, "difference", 0)
        edge_part == IF diff >= 50 THEN 10 ELSE IF diff >= 30 THEN 5 ELSE 0
    IN  Max2(10, Min2(50, 20 + factor_part + streak_part + edge_part))

\* calculate_hit_probability, in tenths of a percent.
calculate_hit_probability(edge_data, factors, streak_info) ==
    LET confidence == calculate_oracle_confidence(edge_data, factors, streak_info)
        recommendation == Get(edge_data, "recommendation", PyNone)
        trend == Get(factors, "performance_trend", "None")
        factor_part ==
            IF ~ Truthy(factors) THEN 0
            ELSE (IF Get(factors, "injury_risk", FALSE) THEN -150 ELSE 0)
               + (IF Get(factors, "recent_dnp", FALSE) THEN -100 ELSE 0)
               + (IF trend = "up" /\ recommendation = "OVER" THEN 50
                  ELSE IF trend = "down" /\ recommendation = "UNDER" THEN 50
                  ELSE 0)
               + (IF Get(factors, "minutes_variance", 1000) < 50 THEN 30 ELSE 0)
        streak_count == Get(streak_info, "streak_count", 0)
        streak_part ==
            IF Truthy(streak_info) /\ Get(streak_info, "active", FALSE)
            THEN IF streak_count >= 4 THEN 80
                 ELSE IF streak_count >= 3 THEN 50 ELSE 0
            ELSE 0
        diff == Get(edge_data, "difference", 0)
        edge_part == IF diff >= 50 THEN 70 ELSE IF diff >= 30 THEN 40 ELSE 0
    IN  Max2(500, Min2(950, 500 + (confidence - 10) * 10
                                + factor_part + streak_part + edge_part))

\* generate_high_probability_reasoning formats recent_stat_avg and
\* older_stat_avg with :.1f when the performance trend agrees with the
\* recommendation; a None among them raises TypeError.
ReasoningRaises(edge_data, factors) ==
    /\ Truthy(factors)
    /\ Get(factors, "performance_trend", "None") = "up"
    /\ Get(edge_data, "recommendation", PyNone) = "OVER"
    /\ \/ Get(factors, "recent_stat_avg", Num(0)) = PyNone
       \/ Get(factors, "older_stat_avg", Num(0)) = PyNone

\* The record filter_high_probability_props appends for an edge (the
\* reasoning and PrizePicks texts are display strings and are left out).
HighProbProp(edge, probability) ==
    [ tag |-> "dict", keys |-> {"edge", "probability", "oracle", "beneficiary"},
      edge |-> edge, probability |-> probability,
      oracle |-> Get(edge, "oracle", EmptyDict),
      beneficiary |-> Get(edge, "beneficiary", PyNone) ]

\* The probability filter_high_probability_props computes for an edge.
PropProbability(edge) ==
    calculate_hit_probability(edge, Get(edge, "factors", EmptyDict),
                              EnhanceStreakInfo(edge))

\* The loop of filter_high_probability_props, before the sort.
RECURSIVE HighProbPropsOf(_, _)
HighProbPropsOf(edges, min_probability) ==
    IF edges = <<>> THEN <<>>
    ELSE (IF PropProbability(Head(edges)) >= min_probability
          THEN << HighProbProp(Head(edges), PropProbability(Head(edges))) >>
          ELSE <<>>)
         \o HighProbPropsOf(Tail(edges), min_probability)

filter_high_probability_props(edges, min_probability) ==
    Sorted(HighProbPropsOf(edges, min_probability), "probability", TRUE)

\* An edge for which filter_high_probability_props raises.
HighProbRaises(edges, min_probability) ==
    \E i \in 1 .. Len(edges) :
        \/ EnhanceStreakRaises(edges[i])
        \/ /\ PropProbability(edges[i]) >= min_probability
           /\ ReasoningRaises(edges[i], Get(edges[i], "factors", EmptyDict))

\* edge['probability'] = probability
WithProbability(edge, probability) ==
    [ keys |-> edge.keys \cup {"probability"}, probability |-> probability ] @@ edge

\* The edge left behind when grade_matchup raised inside
\* enhance_edge_with_analytics: ev and confidence are already assigned.
HalfEnhancedEdge(edge, default_odds) ==
    LET probability == Get(edge, "probability", 0)
        ev_data     == calculate_expected_value(probability, default_odds, 100)
    IN  [ keys |-> edge.keys \cup {"ev", "confidence"},
          ev         |-> ev_data,
          confidence |-> calculate_confidence_score(probability, ev_data,
                             Get(edge, "factors", EmptyDict), EnhanceStreakInfo(edge))
        ] @@ edge

\* One turn of the loop over edges_to_process: the edge appended to edges.
\* An exception of the enhancement is caught and the edge kept as it is.
ProcessedEdge(edge) ==
    IF enhance_edge_with_analytics(WithProbability(edge, PropProbability(edge)),
                                   DefaultOdds).tag = "raise"
    THEN HalfEnhancedEdge(WithProbability(edge, PropProbability(edge)), DefaultOdds)
    ELSE EnhancedEdge(WithProbability(edge, PropProbability(edge)), DefaultOdds)

\* The loop: an edge whose streak lookup raises is skipped.
RECURSIVE ProcessedEdges(_)
ProcessedEdges(all_edges) ==
    IF all_edges = <<>> THEN <<>>
    ELSE (IF EnhanceStreakRaises(Head(all_edges)) THEN <<>>
          ELSE << ProcessedEdge(Head(all_edges)) >>)
         \o ProcessedEdges(Tail(all_edges))

\* filter_dict of get_edges_data with the defaults min_ev = 0.0,
\* min_market_edge = 0.0, exclude_rotation = False and min_grade = None
\* (filters.get('min_grade') is then as for a missing key).
ViewFilterDict(min_probability, positive_ev_only, exclude_injuries) ==
    FilterConfig(Some(min_probability), Some(0), Some(0), Absent, Some(positive_ev_only), Some(exclude_injuries), Some(FALSE))

\* The probability filter after apply_tactical_filters.
ViewProbabilityFilter(filtered_edges, show_only_70_plus, min_probability) ==
    LET min_prob == IF show_only_70_plus THEN Max2(700, min_probability)
                    ELSE min_probability
        Keep(e) == Get(e, "probability", 0) >= min_prob
    IN  SelectSeq(filtered_edges, Keep)

\* Mutant of HighProbabilityView: the view is cut at the configured
\* min_probability.
HighProbabilityViewAtMinimum(filtered_edges, min_probability) ==
    IF filtered_edges = <<>> \/ HighProbRaises(filtered_edges, min_probability)
    THEN <<>>
    ELSE filter_high_probability_props(filtered_edges, min_probability)

\* high_prob_props: filter_high_probability_props(filtered_edges, 70.0) for
\* a list that is not empty, [] when the call raised.
HighProbabilityView(filtered_edges, min_probability) ==
    IF filtered_edges = <<>> \/ HighProbRaises(filtered_edges, 700)
    THEN <<>>
    ELSE filter_high_probability_props(filtered_edges, 700)

\* What get_edges_data returns for the sorted filtered edges and their view;
\* parlay_input is the list handed to recommend_parlays (no call for an
\* empty view).
EdgesDataOf(filtered_edges, high_prob_props) ==
    [ filtered_edges |-> filtered_edges,
      high_prob_props |-> high_prob_props,
      parlay_input |-> high_prob_props,
      parlay_recommendations |-> IF high_prob_props = <<>> THEN EmptyDict
                                 ELSE recommend_parlays(high_prob_props) ]

\* The sorted filtered edges.
FilteredEdges(edges, show_only_70_plus, sort_by, min_probability, filter_dict) ==
    ApplySorting(ViewProbabilityFilter(apply_tactical_filters(edges, filter_dict),
                                       show_only_70_plus, min_probability),
                 sort_by)

EdgesDataFrom(filtered_edges, min_probability) ==
    EdgesDataOf(filtered_edges, HighProbabilityView(filtered_edges, min_probability))

\* get_edges_data from `edges_to_process = all_edges[:20]` on.
get_edges_data(all_edges, show_only_70_plus, sort_by, min_probability, positive_ev_only, exclude_injuries) ==
    EdgesDataFrom(
        FilteredEdges(ProcessedEdges(SubSeq(all_edges, 1, Min2(20, Len(all_edges)))),
                      show_only_70_plus, sort_by, min_probability,
                      ViewFilterDict(min_probability, positive_ev_only, exclude_injuries)),
        min_probability)

----------------------------------------------------------------------------
(* Inputs of get_edges_data                                                 *)

\* An edge as check_for_edges returns it: no probability yet.
FoundEdge(player, difference, factors, streak, beneficiary) ==
    [ Edge(player, 0, difference, factors, streak, beneficiary)
        EXCEPT !.keys = @ \ {"probability"} ]

\* Found edges with hit probabilities 95, 50, 69, 77 and 86; for the last the
\* enhancement raises (matchup data without an advantage).
FoundEdgePool ==
    { FoundEdge("p1", 60,
                PerformanceFactors("up", FALSE, FALSE, FALSE, 40, Num(250), Num(200)),
                StreakRecord(4), Beneficiary(MatchupData(Num(30)))),
      FoundEdge("p2", 35,
                PerformanceFactors("down", TRUE, FALSE, TRUE, 120, Num(180), Num(240)),
                StreakRecord(0), Absent),
      FoundEdge("p3", 35, Absent, Absent, Absent),
      FoundEdge("p4", 60, Absent, StreakRecord(2), Absent),
      FoundEdge("p5", 21,
                PerformanceFactors("stable", FALSE, FALSE, FALSE, 20, Num(250), PyNone),
                StreakRecord(4), Beneficiary(MatchupData(PyNone))) }

MaxFoundEdges == 3

MinProbabilities == { 0, 600, 700, 800 }

InitView ==
    /\ fn = "get_edges_data"
    /\ args \in [ all_edges : InjectiveSeqsUpTo(FoundEdgePool, MaxFoundEdges),
                  show_only_70_plus : BOOLEAN,
                  sort_by : { "ev", "probability", "edge", "kelly" },
                  min_probability : MinProbabilities,
                  positive_ev_only : BOOLEAN,
                  exclude_injuries : BOOLEAN ]
    /\ ret = Pending
    /\ disk = NoFiles
    /\ pc = "call"

CallGetEdgesData ==
    /\ fn = "get_edges_data"
    /\ pc = "call"
    /\ pc' = "done"
    /\ ret' = get_edges_data(args.all_edges, args.show_only_70_plus, args.sort_by,
                             args.min_probability, args.positive_ev_only,
                             args.exclude_injuries)
    /\ UNCHANGED <<fn, args, disk>>

NextView == CallGetEdgesData

SpecView == InitView /\ [][NextView]_vars

ViewReturned == fn = "get_edges_data" /\ pc = "done"

\* The edges of a list of high-probability records.
EdgesOfView(high_prob_props) ==
    { high_prob_props[i].edge : i \in 1 .. Len(high_prob_props) }

\* C16: the high-probability view holds exactly the filtered edges whose
\* probability is >= 70.0, each once and with that probability, whatever
\* min_probability is, and the list handed to the parlay construction is the
\* view.
C16_ViewIsFilteredEdgesAtSeventy ==
    ViewReturned =>
        /\ EdgesOfView(ret.high_prob_props)
              = { ret.filtered_edges[i] : i \in { j \in 1 .. Len(ret.filtered_edges) :
                                                   ret.filtered_edges[j].probability >= 700 } }
        /\ Len(ret.high_prob_props) = Cardinality(EdgesOfView(ret.high_prob_props))
        /\ \A i \in 1 .. Len(ret.high_prob_props) :
              ret.high_prob_props[i].probability = ret.high_prob_props[i].edge.probability
        /\ ret.parlay_input = ret.high_prob_props

\* A request with min_probability 60 that does not ask for 70 plus: an edge
\* of 69% is among the filtered edges and not in the view, an edge of 77% is
\* in both, and the view is what the parlays were built from.
C16_Witness ==
    /\ ViewReturned
    /\ args.min_probability = 600
    /\ ~ args.show_only_70_plus
    /\ \E i \in 1 .. Len(ret.filtered_edges) : ret.filtered_edges[i].probability = 690
    /\ \E i \in 1 .. Len(ret.filtered_edges) : ret.filtered_edges[i].probability = 770
    /\ Len(ret.high_prob_props) = 2
    /\ \A i \in 1 .. 2 : ret.high_prob_props[i].probability >= 700
    /\ ret.parlay_input = ret.high_prob_props
    /\ Len(ret.parlay_recommendations["2_man"]) = 1

----------------------------------------------------------------------------
(* calculate_parlay_payout(bets) for bets of any American odds.  The        *)
(* decimal odds of a leg are the fraction (odds + 100) / 100 or              *)
(* (100 + |odds|) / |odds| in lowest terms; the products of the numerators   *)
(* and of the denominators are kept as integers (below 2000000 for the       *)
(* bets checked).                                                            *)

RECURSIVE Gcd(_, _)
Gcd(a, b) == IF b = 0 THEN a ELSE Gcd(b, a % b)

\* decimal = (odds / 100) + 1 if odds > 0 else (100 / abs(odds)) + 1, as
\* <<numerator, denominator>>.
DecimalOdds(odds) ==
    IF odds > 0 THEN << (odds + 100) \div Gcd(odds + 100, 100), 100 \div Gcd(odds + 100, 100) >>
    ELSE << (100 + Abs(odds)) \div Gcd(100 + Abs(odds), Abs(odds)),
            Abs(odds) \div Gcd(100 + Abs(odds), Abs(odds)) >>

\* A bet dictionary with the keys the function reads.
ParlayLeg(odds, probability) ==
    [ tag |-> "dict", keys |-> {"odds", "probability"},
      odds |-> odds, probability |-> probability ]

RECURSIVE Product(_)
Product(ns) == IF ns = <<>> THEN 1 ELSE Head(ns) * Product(Tail(ns))

\* The result for combined decimal odds n / d and the probabilities (tenths
\* of a percent) of k legs.
PayoutOf(k, n, d, probabilities) ==
    [ valid |-> TRUE,
      num_bets |-> k,
      combined_probability |->
          BigRoundHalfEven(BigMul(BigMulAll(<<1>>, probabilities), 10000), Power(1000, k)),
      decimal_odds |-> RoundHalfEven(1000 * n, d),
      american_odds |-> IF n >= 2 * d THEN (100 * (n - d)) \div d
                        ELSE 0 - ((100 * d) \div (n - d)),
      payout_per_100 |-> RoundHalfEven(10000 * (n - d), d),
      profit_per_100 |-> RoundHalfEven(10000 * (n - d), d),
      implied_probability |-> RoundHalfEven(10000 * d, n),
      edge |-> BigRoundDifference(
                   BigMulAll(<<1>>, probabilities \o <<10000, n>>),
                   BigMulAll(<<1>>, Power(1000, k) \o <<10000, d>>),
                   Power(1000, k) \o <<n>>),
      expected_value |-> BigRoundDifference(
                   BigMulAll(<<1>>, probabilities \o <<10000, n - d>>),
                   BigMulAll(<<1>>, Power(1000, k) \o <<10000, d>>),
                   Power(1000, k) \o <<d>>) ]

\* Mutant of ParlayPayout: a single bet is priced as a parlay of one leg.
ParlayPayoutOfOneOrMore(bets) ==
    IF Len(bets) < 1
    THEN [ valid |-> FALSE, error |-> "Parlay requires at least 2 bets" ]
    ELSE IF \E i \in 1 .. Len(bets) : Get(bets[i], "odds", 0) = 0
    THEN Raised("ZeroDivisionError")
    ELSE PayoutOf(Len(bets),
                  Product([ i \in 1 .. Len(bets) |-> DecimalOdds(bets[i].odds)[1] ]),
                  Product([ i \in 1 .. Len(bets) |-> DecimalOdds(bets[i].odds)[2] ]),
                  [ i \in 1 .. Len(bets) |-> Get(bets[i], "probability", 0) ])

\* calculate_parlay_payout(bets) with odds_format = 'american'; odds of 0
\* (or no odds key) divide by zero.
ParlayPayout(bets) ==
    IF Len(bets) < 2
    THEN [ valid |-> FALSE, error |-> "Parlay requires at least 2 bets" ]
    ELSE IF \E i \in 1 .. Len(bets) : Get(bets[i], "odds", 0) = 0
    THEN Raised("ZeroDivisionError")
    ELSE PayoutOf(Len(bets),
                  Product([ i \in 1 .. Len(bets) |-> DecimalOdds(bets[i].odds)[1] ]),
                  Product([ i \in 1 .. Len(bets) |-> DecimalOdds(bets[i].odds)[2] ]),
                  [ i \in 1 .. Len(bets) |-> Get(bets[i], "probability", 0) ])

MaxLegs == 3

LegOdds == { -500, -110, 0, 150 }

LegProbabilities == { 550, 700 }

ParlayLegs ==
    { ParlayLeg(o, q) : o \in LegOdds, q \in LegProbabilities }
    \cup { [ tag |-> "dict", keys |-> {"probability"}, probability |-> 700 ] }

InitPayout ==
    /\ fn = "calculate_parlay_payout"
    /\ args \in [ bets : SeqsUpTo(ParlayLegs, MaxLegs) ]
    /\ ret = Pending
    /\ disk = NoFiles
    /\ pc = "call"

CallCalculateParlayPayout ==
    /\ fn = "calculate_parlay_payout"
    /\ pc = "call"
    /\ pc' = "done"
    /\ ret' = ParlayPayout(args.bets)
    /\ UNCHANGED <<fn, args, disk>>

NextPayout == CallCalculateParlayPayout

SpecPayout == InitPayout /\ [][NextPayout]_vars

PayoutReturned == fn = "calculate_parlay_payout" /\ pc = "done"

\* Every bet carries odds that are not 0.
AllOddsNonzero == \A i \in 1 .. Len(args.bets) : Get(args.bets[i], "odds", 0) # 0

\* C17: with fewer than 2 bets the result has valid = false and an error and
\* no other field; with 2 or more bets of nonzero odds it has valid = true
\* and num_bets = the number of bets; so a result with valid = false is
\* returned exactly for fewer than 2 bets.
C17_InvalidExactlyBelowTwoBets ==
    PayoutReturned =>
        /\ Len(args.bets) < 2 =>
              /\ DOMAIN ret = {"valid", "error"}
              /\ ~ ret.valid
              /\ ret.error # ""
        /\ (Len(args.bets) >= 2 /\ AllOddsNonzero) =>
              /\ "valid" \in DOMAIN ret
              /\ ret.valid
              /\ ret.num_bets = Len(args.bets)
        /\ ("valid" \in DOMAIN ret /\ ~ ret.valid) => Len(args.bets) < 2

\* One bet is refused, and three bets of different nonzero odds are priced.
C17_Witness ==
    /\ PayoutReturned
    /\ Len(args.bets) = 3
    /\ AllOddsNonzero
    /\ args.bets[1].odds # args.bets[2].odds
    /\ ret.valid
    /\ ret.num_bets = 3
    /\ ret.payout_per_100 > 0

\* A single bet with nonzero odds is refused.
C17_WitnessSingleBet ==
    /\ PayoutReturned
    /\ Len(args.bets) = 1
    /\ AllOddsNonzero
    /\ ~ ret.valid

----------------------------------------------------------------------------
(* requires_auth of auth.py: the wrapper around a route handler.  An         *)
(* environment variable is Absent or Some(string); the Authorization header *)
(* is None or Basic credentials.                                            *)

\* os.environ.get(name, default)
EnvironGet(variable, default) == IF variable = Absent THEN default ELSE variable.val

\* os.environ.get(name) as a condition: set and not empty.
EnvironSet(variable) == variable # Absent /\ variable.val # ""

check_auth(environ, username, password) ==
    /\ username = EnvironGet(environ.AUTH_USERNAME, "admin")
    /\ password = EnvironGet(environ.AUTH_PASSWORD, "changeme")

\* The response of the wrapper and whether it called the handler f (which
\* answers 200).
decorated(environ, authorization) ==
    IF ~ EnvironSet(environ.AUTH_USERNAME) /\ ~ EnvironSet(environ.AUTH_PASSWORD)
    THEN [ status |-> 200, handler_ran |-> TRUE ]
    ELSE IF authorization = PyNone
            \/ ~ check_auth(environ, authorization.username, authorization.password)
    THEN [ status |-> 401, handler_ran |-> FALSE ]
    ELSE [ status |-> 200, handler_ran |-> TRUE ]

EnvironUsernames == { Absent, Some(""), Some("alice") }

EnvironPasswords == { Absent, Some(""), Some("secret") }

Authorizations ==
    { PyNone }
    \cup [ tag : {"basic"}, username : { "alice", "admin", "mallory" },
           password : { "secret", "changeme", "wrong", "" } ]

InitAuth ==
    /\ fn = "requires_auth.decorated"
    /\ args \in [ environ : [ AUTH_USERNAME : EnvironUsernames,
                              AUTH_PASSWORD : EnvironPasswords ],
                  authorization : Authorizations ]
    /\ ret = Pending
    /\ disk = NoFiles
    /\ pc = "call"

CallDecorated ==
    /\ fn = "requires_auth.decorated"
    /\ pc = "call"
    /\ pc' = "done"
    /\ ret' = decorated(args.environ, args.authorization)
    /\ UNCHANGED <<fn, args, disk>>

NextAuth == CallDecorated

SpecAuth == InitAuth /\ [][NextAuth]_vars

AuthReturned == fn = "requires_auth.decorated" /\ pc = "done"

\* The request carries Basic credentials equal to the configured username
\* and the configured password.
MatchesConfigured ==
    /\ args.authorization # PyNone
    /\ args.environ.AUTH_USERNAME = Some(args.authorization.username)
    /\ args.environ.AUTH_PASSWORD = Some(args.authorization.password)

\* C18: when AUTH_USERNAME or AUTH_PASSWORD is configured, the handler runs
\* only for a request whose username and password both equal the configured
\* values; any other request gets 401 and the handler is not run.
C18_HandlerRunsOnlyForConfiguredCredentials ==
    (AuthReturned /\ (EnvironSet(args.environ.AUTH_USERNAME)
                        \/ EnvironSet(args.environ.AUTH_PASSWORD))) =>
        /\ ret.handler_ran => MatchesConfigured
        /\ ~ MatchesConfigured => (ret.status = 401 /\ ~ ret.handler_ran)

----------------------------------------------------------------------------
(* get_player_performance_factors(player_name, stat_type, season)           *)

\* One game of the list fetch_recent_games returns: minutes and stat value
\* in whole units, did_not_play = minutes < 1.0.
Game(minutes, stat_value, fgm, fga) ==
    [ minutes |-> minutes, stat_value |-> stat_value,
      did_not_play |-> (minutes < 1), fgm |-> fgm, fga |-> fga ]

RECURSIVE SumField(_, _)
SumField(games, field) ==
    IF games = <<>> THEN 0 ELSE games[1][field] + SumField(Tail(games), field)

RECURSIVE SumSquares(_, _)
SumSquares(games, field) ==
    IF games = <<>> THEN 0
    ELSE games[1][field] * games[1][field] + SumSquares(Tail(games), field)

\* xs[:5] if len(xs) >= 5 else xs
RecentWindow(games) == SubSeq(games, 1, Min2(5, Len(games)))

\* xs[5:10] if len(xs) >= 10 else []
OlderWindow(games) == IF Len(games) >= 10 THEN SubSeq(games, 6, 10) ELSE <<>>

\* The sum and the length of the window an "older" average is taken over:
\* the older window, or the recent one when the older window is empty.
OlderOrRecent(games) ==
    IF OlderWindow(games) # <<>> THEN OlderWindow(games) ELSE RecentWindow(games)

\* 'up' if recent_avg > older_avg + 2 else 'down' if recent_avg < older_avg - 2
\* else 'stable', the averages being sums over lengths.
TrendOf(games, field) ==
    LET rs == SumField(RecentWindow(games), field)
        rn == Len(RecentWindow(games))
        os == SumField(OlderOrRecent(games), field)
        on == Len(OlderOrRecent(games))
    IN  IF rs * on > os * rn + 2 * rn * on THEN "up"
        ELSE IF rs * on < os * rn - 2 * rn * on THEN "down"
        ELSE "stable"

\* abs(recent_min_avg - older_min_avg) > 5 if older_minutes else False
RotationChange(games) ==
    LET rs == SumField(RecentWindow(games), "minutes")
        rn == Len(RecentWindow(games))
        os == SumField(OlderWindow(games), "minutes")
        on == Len(OlderWindow(games))
    IN  IF OlderWindow(games) = <<>> THEN FALSE
        ELSE Abs(rs * on - os * rn) > 5 * rn * on

\* round(average, 1) of a window, in tenths.
WindowAverage(window, field) == RoundHalfEven(10 * SumField(window, field), Len(window))

RECURSIVE IsqrtIn(_, _, _)
\* The largest r in lo .. hi with r * r <= n.
IsqrtIn(n, lo, hi) ==
    IF lo >= hi THEN lo
    ELSE LET mid == (lo + hi + 1) \div 2
         IN  IF mid * mid <= n THEN IsqrtIn(n, mid, hi) ELSE IsqrtIn(n, lo, mid - 1)

\* round(sqrt(a / b), 0) for a >= 0, b > 0: floor((floor(sqrt(4a / b)) + 1) / 2).
RoundSqrt(a, b) == (IsqrtIn((4 * a) \div b, 0, 40000) + 1) \div 2

\* n * sum(x^2) - sum(x)^2 = n^2 times the mean squared deviation.
SquaredDeviations(games) ==
    Len(games) * SumSquares(games, "minutes")
        - SumField(games, "minutes") * SumField(games, "minutes")

\* round(pd.Series(minutes_list).std(), 1) in tenths, 0 for one game.  The
\* pandas std divides the squared deviations by N - 1.
MinutesVariance(games) ==
    IF Len(games) > 1
    THEN RoundSqrt(100 * SquaredDeviations(games), Len(games) * (Len(games) - 1))
    ELSE 0

DnpGames(games) == { i \in DOMAIN games : games[i].did_not_play }

\* The games of games_list[:5] with fga > 0.
ShotGames(games) == { i \in DOMAIN RecentWindow(games) : games[i].fga > 0 }

RECURSIVE SumFgPct(_, _)
\* The sum of fgm / fga, in percent, over the games with attempts (the games
\* drawn have whole percentages).
SumFgPct(games, indices) ==
    IF indices = {} THEN 0
    ELSE LET i == CHOOSE j \in indices : TRUE
         IN  (100 * games[i].fgm) \div games[i].fga + SumFgPct(games, indices \ {i})

\* round(avg_fg_pct * 100, 1) if avg_fg_pct else None, in tenths of a percent.
ShootingEfficiency(games) ==
    IF ShotGames(games) = {} \/ SumFgPct(games, ShotGames(games)) = 0 THEN PyNone
    ELSE Num(RoundHalfEven(10 * SumFgPct(games, ShotGames(games)),
                           Cardinality(ShotGames(games))))

\* Mutant of OlderAverage: the older average is reported as the recent one
\* it defaults to.
OlderAverageDefaulted(games, field) == Num(WindowAverage(OlderOrRecent(games), field))

\* round(older_avg, 1) if the older window is not empty else None
OlderAverage(games, field) ==
    IF OlderWindow(games) = <<>> THEN PyNone
    ELSE Num(WindowAverage(OlderWindow(games), field))

get_player_performance_factors(games_list) ==
    IF games_list = <<>> THEN PyNone
    ELSE
      [ tag |-> "dict",
        keys |-> {"recent_minutes_avg", "older_minutes_avg", "minutes_trend",
                  "minutes_variance", "dnp_count", "recent_dnp", "injury_risk",
                  "rotation_change", "performance_trend", "recent_stat_avg",
                  "older_stat_avg", "shooting_efficiency", "games_analyzed"},
        recent_minutes_avg  |-> Num(WindowAverage(RecentWindow(games_list), "minutes")),
        older_minutes_avg   |-> OlderAverage(games_list, "minutes"),
        minutes_trend       |-> TrendOf(games_list, "minutes"),
        minutes_variance    |-> MinutesVariance(games_list),
        dnp_count           |-> Cardinality(DnpGames(games_list)),
        recent_dnp          |-> (DnpGames(games_list) \cap 1 .. 3 # {}),
        injury_risk         |-> (DnpGames(games_list) # {}),
        rotation_change     |-> RotationChange(games_list),
        performance_trend   |-> TrendOf(games_list, "stat_value"),
        recent_stat_avg     |-> Num(WindowAverage(RecentWindow(games_list), "stat_value")),
        older_stat_avg      |-> OlderAverage(games_list, "stat_value"),
        shooting_efficiency |-> ShootingEfficiency(games_list),
        games_analyzed      |-> Len(games_list) ]

----------------------------------------------------------------------------
(* Inputs of get_player_performance_factors *)

\* fetch_recent_games is asked for games=10 and returns df.head(games).
GamesRequested == 10

\* A game not played, a short game with a high stat value and a long game
\* with a low one.
GameKinds == { Game(0, 0, 0, 0), Game(12, 20, 4, 10), Game(34, 8, 9, 15) }

InitFactors ==
    /\ fn = "get_player_performance_factors"
    /\ args \in [ games_list : SeqsUpTo(GameKinds, GamesRequested) ]
    /\ ret = Pending
    /\ disk = NoFiles
    /\ pc = "call"

CallGetPlayerPerformanceFactors ==
    /\ fn = "get_player_performance_factors"
    /\ pc = "call"
    /\ pc' = "done"
    /\ ret' = get_player_performance_factors(args.games_list)
    /\ UNCHANGED <<fn, args, disk>>

NextFactors == CallGetPlayerPerformanceFactors

SpecFactors == InitFactors /\ [][NextFactors]_vars

FactorsReturned ==
    fn = "get_player_performance_factors" /\ pc = "done" /\ ret # PyNone

\* |recent minutes average - older minutes average| > 5 over the first five
\* and the next five games, as a comparison of sums.
MinutesAveragesApart ==
    /\ Len(args.games_list) >= 10
    /\ Abs(SumField(SubSeq(args.games_list, 1, 5), "minutes")
             - SumField(SubSeq(args.games_list, 6, 10), "minutes")) > 25

\* C24: with 1 to 9 observations the older minutes and stat averages are
\* null, both trends are stable and rotation_change is false; for every
\* input each trend is one of up, down, stable, and rotation_change is true
\* only if 10 observations exist and the recent and older minutes averages
\* differ by more than 5.
C24_OlderWindowNeedsTenObservations ==
    FactorsReturned =>
        /\ Len(args.games_list) \in 1 .. 9 =>
              /\ ret.older_minutes_avg = PyNone
              /\ ret.older_stat_avg = PyNone
              /\ ret.minutes_trend = "stable"
              /\ ret.performance_trend = "stable"
              /\ ~ ret.rotation_change
        /\ ret.minutes_trend \in {"up", "down", "stable"}
        /\ ret.performance_trend \in {"up", "down", "stable"}
        /\ ret.rotation_change => MinutesAveragesApart

\* Nine games whose first five differ from the rest: no older window.
C24_Witness ==
    /\ FactorsReturned
    /\ Len(args.games_list) = 9
    /\ SumField(SubSeq(args.games_list, 1, 5), "minutes")
           > SumField(SubSeq(args.games_list, 6, 9), "minutes") + 100
    /\ ret.older_minutes_avg = PyNone
    /\ ret.minutes_trend = "stable"
    /\ ~ ret.rotation_change

\* Ten games: a rotation change with a trend up and a falling stat value.
C24_WitnessRotation ==
    /\ FactorsReturned
    /\ Len(args.games_list) = 10
    /\ ret.rotation_change
    /\ ret.minutes_trend = "up"
    /\ ret.performance_trend = "down"
    /\ ret.older_minutes_avg # PyNone

\* The population standard deviation of the minutes, rounded to one decimal,
\* in tenths: the r >= 0 nearest to sqrt(sum((x - mean)^2) / N), as the r
\* with (2r - 1)^2 N^2 <= 400 (N sum(x^2) - sum(x)^2) < (2r + 1)^2 N^2.
IsPopulationStd(r, games) ==
    LET n == Len(games)
        d == 400 * (n * SumSquares(games, "minutes")
                      - SumField(games, "minutes") * SumField(games, "minutes"))
    IN  /\ r >= 0
        /\ r = 0 \/ (2 * r - 1) * (2 * r - 1) * n * n <= d
        /\ d < (2 * r + 1) * (2 * r + 1) * n * n

\* C25: minutes_variance is the population standard deviation (squared
\* deviations divided by N, not N - 1) of the minutes of all observations,
\* and 0 for a single observation.
C25_MinutesVarianceIsPopulationStd ==
    FactorsReturned =>
        IF Len(args.games_list) = 1 THEN ret.minutes_variance = 0
        ELSE IsPopulationStd(ret.minutes_variance, args.games_list)

----------------------------------------------------------------------------
(* check_for_edges(projections, threshold, stat_type, season,               *)
(*                 include_streaks, min_streak, include_factors)            *)
(*                                                                          *)
(* projections is a sequence of entries in the order of projections.items() *)
(* (the keys of a dictionary are distinct): the player, the line, and what  *)
(* the provider holds for the player: the stat values of the game log, most *)
(* recent first, in tenths, the factors get_player_performance_factors      *)
(* returns and the analysis identify_statistical_beneficiary returns.  The  *)
(* loop is one step per entry; ret holds edges, streaks and the position of *)
(* the next entry.  advanced_metrics (shooting figures for display) and the *)
(* texts of the verdict are not carried.                                    *)

\* games_list[:n] of the game log.
FirstGames(log, n) == SubSeq(log, 1, Min2(n, Len(log)))

RECURSIVE SumSeq(_)
SumSeq(values) == IF values = <<>> THEN 0 ELSE values[1] + SumSeq(Tail(values))

\* fetch_recent_stats: None without games, else the average of the last 5 as
\* the pair <<sum, count>>.
fetch_recent_stats(log) ==
    IF FirstGames(log, 5) = <<>> THEN PyNone
    ELSE [ tag |-> "avg", sum |-> SumSeq(FirstGames(log, 5)),
           count |-> Len(FirstGames(log, 5)) ]

\* Mutant of IsEdge: a difference equal to the threshold counts.
IsEdgeAtThreshold(avg, line, threshold) ==
    Abs(avg.sum - line * avg.count) >= threshold * avg.count

\* abs(avg - line) > threshold
IsEdge(avg, line, threshold) ==
    Abs(avg.sum - line * avg.count) > threshold * avg.count

\* calculate_streak on the last 10 games, as a dictionary.
StreakInfo(log, line, min_streak) ==
    LET r == calculate_streak(FirstGames(log, 10), line, min_streak)
    IN  [ tag |-> "dict", keys |-> {"streak_count", "streak_type", "active"},
          streak_count |-> r.streak_count, streak_type |-> r.streak_type,
          active |-> r.active ]

\* generate_oracle_verdict without its texts and without the reference back
\* to edge_data.
OracleVerdict(edge_data, factors, streak_info) ==
    [ tag |-> "dict", keys |-> {"player", "line", "verdict", "confidence"},
      player |-> edge_data.player, line |-> edge_data.line,
      verdict |-> edge_data.recommendation,
      confidence |-> calculate_oracle_confidence(edge_data, factors, streak_info) ]

\* edge_data before the verdict and the beneficiary are added.
EdgeData(entry, avg, include_streaks, min_streak) ==
    [ tag |-> "dict",
      keys |-> {"player", "line", "average", "difference", "recommendation",
                "stat_type", "oracle"}
               \cup (IF include_streaks THEN {"streak"} ELSE {})
               \cup (IF Truthy(entry.factors) THEN {"factors"} ELSE {})
               \cup (IF entry.beneficiary # PyNone THEN {"beneficiary"} ELSE {}),
      player |-> entry.player,
      line |-> entry.line,
      average |-> RoundHalfEven(avg.sum, avg.count),
      difference |-> RoundHalfEven(Abs(avg.sum - entry.line * avg.count), avg.count),
      recommendation |-> IF avg.sum > entry.line * avg.count THEN "OVER" ELSE "UNDER",
      stat_type |-> "PTS",
      streak |-> IF include_streaks THEN StreakInfo(entry.log, entry.line, min_streak)
                 ELSE Absent,
      factors |-> IF Truthy(entry.factors) THEN entry.factors ELSE Absent,
      beneficiary |-> IF entry.beneficiary # PyNone THEN entry.beneficiary ELSE Absent ]

\* The edge appended for the entry.
EdgeOf(entry, avg, include_streaks, min_streak) ==
    [ tag |-> "dict",
      keys |-> EdgeData(entry, avg, include_streaks, min_streak).keys,
      player |-> entry.player,
      line |-> entry.line,
      average |-> EdgeData(entry, avg, include_streaks, min_streak).average,
      difference |-> EdgeData(entry, avg, include_streaks, min_streak).difference,
      recommendation |-> EdgeData(entry, avg, include_streaks, min_streak).recommendation,
      stat_type |-> "PTS",
      streak |-> EdgeData(entry, avg, include_streaks, min_streak).streak,
      factors |-> EdgeData(entry, avg, include_streaks, min_streak).factors,
      beneficiary |-> EdgeData(entry, avg, include_streaks, min_streak).beneficiary,
      oracle |-> OracleVerdict(EdgeData(entry, avg, include_streaks, min_streak),
                               IF Truthy(entry.factors) THEN entry.factors ELSE PyNone,
                               IF include_streaks
                               THEN StreakInfo(entry.log, entry.line, min_streak)
                               ELSE PyNone) ]

\* `avg` is falsy when it is None or 0.
AvgTruthy(avg) == avg # PyNone /\ avg.sum # 0

\* The record the streak verdict is generated from: average rounded or 0,
\* difference abs(avg - line) unrounded or 0 (its whole tenths decide the
\* comparisons with 3 and 5).
StreakVerdictInput(entry, avg, streak_info) ==
    [ tag |-> "dict",
      keys |-> {"player", "line", "average", "difference", "recommendation"},
      player |-> entry.player, line |-> entry.line,
      average |-> IF AvgTruthy(avg) THEN RoundHalfEven(avg.sum, avg.count) ELSE 0,
      difference |-> IF AvgTruthy(avg)
                     THEN Abs(avg.sum - entry.line * avg.count) \div avg.count
                     ELSE 0,
      recommendation |-> streak_info.streak_type ]

\* streak_data of an entry with an active streak.
StreakData(entry, avg, streak_info) ==
    [ tag |-> "dict",
      keys |-> {"player", "line", "average", "streak_count", "streak_type",
                "stat_type", "oracle"}
               \cup (IF Truthy(entry.factors) THEN {"factors"} ELSE {}),
      player |-> entry.player, line |-> entry.line,
      average |-> IF AvgTruthy(avg) THEN Num(RoundHalfEven(avg.sum, avg.count))
                  ELSE PyNone,
      streak_count |-> streak_info.streak_count,
      streak_type |-> streak_info.streak_type,
      stat_type |-> "PTS",
      factors |-> IF Truthy(entry.factors) THEN entry.factors ELSE Absent,
      oracle |-> OracleVerdict(StreakVerdictInput(entry, avg, streak_info),
                               IF Truthy(entry.factors) THEN entry.factors ELSE PyNone,
                               streak_info) ]

\* edges after the entry: edge_data is appended if an average is available
\* and differs from the line by more than the threshold.
EdgesAfter(edges, entry, threshold, include_streaks, min_streak) ==
    IF fetch_recent_stats(entry.log) # PyNone
          /\ IsEdge(fetch_recent_stats(entry.log), entry.line, threshold)
    THEN Append(edges, EdgeOf(entry, fetch_recent_stats(entry.log),
                              include_streaks, min_streak))
    ELSE edges

\* Mutant of StreaksAfter: the test for a player already in edges is left out.
StreaksAfterWithDuplicates(streaks, edges, entry, include_streaks, min_streak) ==
    IF include_streaks /\ StreakInfo(entry.log, entry.line, min_streak).active
    THEN Append(streaks, StreakData(entry, fetch_recent_stats(entry.log),
                                    StreakInfo(entry.log, entry.line, min_streak)))
    ELSE streaks

\* streaks after the entry, edges being the list the edge of the entry has
\* already been appended to: streak_data is appended for an active streak of
\* a player not in edges.
StreaksAfter(streaks, edges, entry, include_streaks, min_streak) ==
    IF /\ include_streaks
       /\ StreakInfo(entry.log, entry.line, min_streak).active
       /\ ~ \E i \in DOMAIN edges : edges[i].player = entry.player
    THEN Append(streaks, StreakData(entry, fetch_recent_stats(entry.log),
                                    StreakInfo(entry.log, entry.line, min_streak)))
    ELSE streaks

----------------------------------------------------------------------------
(* Inputs of check_for_edges *)

DefaultThreshold == 20

DefaultMinStreak == 2

MaxProjections == 2

MaxLogGames == 2

\* Stat values 19 and 26 around the line 20.5: the logs hold an average
\* exactly 2 above the line (26, 19), streaks inside and outside the
\* threshold, and single games.
LogStatValues == { 190, 260 }

\* The default threshold 2.0, and 1.0, which makes 19 an UNDER edge.
Thresholds == { DefaultThreshold, 10 }

\* What the provider returns for the factors and the beneficiary analysis:
\* nothing, or an analysis, the same way for every player of one run.
ProviderAnswers ==
    { <<PyNone, PyNone>>,
      <<PerformanceFactors("up", FALSE, FALSE, FALSE, 40, Num(250), Num(200)),
        Beneficiary(PyNone)>> }

ProjectionEntry(i, log, answer) ==
    [ player |-> PlayerName(i), line |-> 205, log |-> log,
      factors |-> answer[1], beneficiary |-> answer[2] ]

ProjectionLists(max_projections) ==
    UNION { { [ i \in 1 .. n |-> ProjectionEntry(i, logs[i], answer) ] :
                logs \in [1 .. n -> SeqsUpTo(LogStatValues, MaxLogGames)],
                answer \in ProviderAnswers } :
            n \in 0 .. max_projections }

InitEdges ==
    /\ fn = "check_for_edges"
    /\ args \in [ projections : ProjectionLists(MaxProjections), threshold : Thresholds,
                  include_streaks : BOOLEAN, min_streak : { DefaultMinStreak } ]
    /\ ret = [ edges |-> <<>>, streaks |-> <<>>, next |-> 1 ]
    /\ disk = NoFiles
    /\ pc = "loop"

\* One pass of `for player_name, line in projections.items()`.
CheckProjection ==
    /\ fn = "check_for_edges"
    /\ pc = "loop"
    /\ ret.next <= Len(args.projections)
    /\ LET entry == args.projections[ret.next]
           edges == EdgesAfter(ret.edges, entry, args.threshold,
                               args.include_streaks, args.min_streak)
       IN  ret' = [ edges |-> edges,
                    streaks |-> StreaksAfter(ret.streaks, edges, entry,
                                             args.include_streaks, args.min_streak),
                    next |-> ret.next + 1 ]
    /\ UNCHANGED <<fn, args, pc, disk>>

\* return {'edges': edges, 'streaks': streaks}
ReturnEdges ==
    /\ fn = "check_for_edges"
    /\ pc = "loop"
    /\ ret.next > Len(args.projections)
    /\ pc' = "done"
    /\ ret' = [ edges |-> ret.edges, streaks |-> ret.streaks ]
    /\ UNCHANGED <<fn, args, disk>>

NextEdges == CheckProjection \/ ReturnEdges

SpecEdges == InitEdges /\ [][NextEdges]_vars

EdgesReturned == fn = "check_for_edges" /\ pc = "done"

\* The recent average of projection i is available and differs from the line
\* by more than the threshold: the sum of the last games against line and
\* threshold times their number.
AverageBeyondThreshold(i) ==
    LET log == args.projections[i].log
    IN  /\ Len(log) > 0
        /\ Abs(SumSeq(log) - args.projections[i].line * Len(log))
              > args.threshold * Len(log)

EdgesOfPlayer(i) ==
    { k \in DOMAIN ret.edges : ret.edges[k].player = args.projections[i].player }

StreaksOfPlayer(i) ==
    { k \in DOMAIN ret.streaks : ret.streaks[k].player = args.projections[i].player }

C26_WitnessAtThreshold ==
    /\ EdgesReturned
    /\ Len(args.projections) = 1
    /\ args.threshold = DefaultThreshold
    /\ args.projections[1].log = <<260, 190>>
    /\ ret.edges = <<>>

\* C29: no player appears both in edges and in streaks, each player of the
\* projections appears at most once in each list, and a player with an active
\* streak whose average is within the threshold appears in streaks only.
C29_EdgesAndStreaksDisjoint ==
    EdgesReturned =>
        \A i \in DOMAIN args.projections :
           /\ ~ (EdgesOfPlayer(i) # {} /\ StreaksOfPlayer(i) # {})
           /\ Cardinality(EdgesOfPlayer(i)) <= 1
           /\ Cardinality(StreaksOfPlayer(i)) <= 1
           /\ ( /\ args.include_streaks
                /\ calculate_streak(args.projections[i].log, args.projections[i].line,
                                    args.min_streak).active
                /\ ~ AverageBeyondThreshold(i) )
              => (StreaksOfPlayer(i) # {} /\ EdgesOfPlayer(i) = {})

\* A player with an edge and an active streak is in edges only, next to a
\* player with a streak inside the threshold, who is in streaks only.
C29_Witness ==
    /\ EdgesReturned
    /\ Len(args.projections) = 2
    /\ args.projections[1].log = <<260, 260>>
    /\ args.projections[2].log = <<190, 190>>
    /\ args.include_streaks
    /\ Len(ret.edges) = 1 /\ ret.edges[1].player = "p1"
    /\ ret.edges[1].streak.active
    /\ Len(ret.streaks) = 1 /\ ret.streaks[1].player = "p2"

----------------------------------------------------------------------------
(* glitched_props: add_glitched_prop, remove_glitched_prop and              *)
(* update_glitched_prop on the list stored in glitched_props.json           *)
(*                                                                          *)
(* Each operation loads the list, changes it and saves it; a save is taken  *)
(* to succeed.  A stored prop carries id, prop, platform, reasoning and     *)
(* rating; source, source_detail and the two timestamps, which no operation *)
(* reads, are not carried.                                                  *)

\* The position of the first stored prop that satisfies the test of the
\* loop, 0 if there is none.
FirstSamePropAndPlatform(props, prop, platform) ==
    IF \E i \in DOMAIN props : props[i].prop = prop /\ props[i].platform = platform
    THEN CHOOSE i \in DOMAIN props :
            /\ props[i].prop = prop /\ props[i].platform = platform
            /\ \A j \in 1 .. i - 1 :
                  ~ (props[j].prop = prop /\ props[j].platform = platform)
    ELSE 0

FirstWithId(props, prop_id) ==
    IF \E i \in DOMAIN props : props[i].id = prop_id
    THEN CHOOSE i \in DOMAIN props :
            props[i].id = prop_id /\ \A j \in 1 .. i - 1 : props[j].id # prop_id
    ELSE 0

\* The list add_glitched_prop saves: the existing prop of the same prop and
\* platform updated, or a new prop with id len(props) + 1 appended.
PropsAfterAdd(props, prop, reasoning, rating, platform) ==
    IF FirstSamePropAndPlatform(props, prop, platform) # 0
    THEN [ props EXCEPT ![FirstSamePropAndPlatform(props, prop, platform)] =
             [ @ EXCEPT !.reasoning = reasoning, !.rating = rating ] ]
    ELSE Append(props, [ id |-> Len(props) + 1, prop |-> prop,
                         reasoning |-> reasoning, rating |-> rating,
                         platform |-> platform ])

RECURSIVE PropsWithoutId(_, _)
\* [p for p in props if p.get('id') != prop_id]
PropsWithoutId(props, prop_id) ==
    IF props = <<>> THEN <<>>
    ELSE IF props[1].id # prop_id
         THEN <<props[1]>> \o PropsWithoutId(Tail(props), prop_id)
         ELSE PropsWithoutId(Tail(props), prop_id)

\* A field after update_glitched_prop: replaced unless the argument is None.
UpdatedField(old, argument) == IF argument = PyNone THEN old ELSE argument.val

\* The list update_glitched_prop saves when a prop has the id.
PropsAfterUpdate(props, prop_id, prop, reasoning, rating, platform) ==
    [ props EXCEPT ![FirstWithId(props, prop_id)] =
        [ id |-> @.id,
          prop |-> UpdatedField(@.prop, prop),
          reasoning |-> UpdatedField(@.reasoning, reasoning),
          rating |-> UpdatedField(@.rating, rating),
          platform |-> UpdatedField(@.platform, platform) ] ]

----------------------------------------------------------------------------
(* Operations on the glitched props and their inputs *)

MaxProps == 3

PropNames == { "a", "b", "c" }

Ratings == { 5, 9 }

OptionalOf(S) == { PyNone } \cup { Some(x) : x \in S }

InitGlitched ==
    /\ fn = "none"
    /\ args = EmptyDict
    /\ ret = Pending
    /\ pc = "idle"
    /\ disk = NoFiles

add_glitched_prop ==
    \E prop \in PropNames, rating \in Ratings :
       /\ pc = "idle"
       /\ \/ Len(disk.glitched_props) < MaxProps
          \/ FirstSamePropAndPlatform(disk.glitched_props, prop, "PrizePicks") # 0
       /\ fn' = "add_glitched_prop"
       /\ args' = [ prop |-> prop, reasoning |-> "r", rating |-> rating,
                    platform |-> "PrizePicks" ]
       /\ disk' = [ disk EXCEPT !.glitched_props =
                      PropsAfterAdd(@, prop, "r", rating, "PrizePicks") ]
       /\ ret' = TRUE
       /\ UNCHANGED pc

remove_glitched_prop ==
    \E prop_id \in 1 .. MaxProps :
       /\ pc = "idle"
       /\ fn' = "remove_glitched_prop"
       /\ args' = [ prop_id |-> prop_id ]
       /\ disk' = [ disk EXCEPT !.glitched_props = PropsWithoutId(@, prop_id) ]
       /\ ret' = TRUE
       /\ UNCHANGED pc

update_glitched_prop ==
    \E prop_id \in 1 .. MaxProps, prop \in OptionalOf(PropNames),
       rating \in OptionalOf(Ratings) :
       /\ pc = "idle"
       /\ fn' = "update_glitched_prop"
       /\ args' = [ prop_id |-> prop_id, prop |-> prop, reasoning |-> PyNone,
                    rating |-> rating, platform |-> PyNone ]
       /\ IF FirstWithId(disk.glitched_props, prop_id) # 0
          THEN /\ disk' = [ disk EXCEPT !.glitched_props =
                              PropsAfterUpdate(@, prop_id, prop, PyNone, rating, PyNone) ]
               /\ ret' = TRUE
          ELSE /\ ret' = FALSE
               /\ UNCHANGED disk
       /\ UNCHANGED pc

NextGlitched == add_glitched_prop \/ remove_glitched_prop \/ update_glitched_prop

SpecGlitched == InitGlitched /\ [][NextGlitched]_vars

\* C28: starting from an empty store, after any sequence of adds, updates
\* and removes no two stored glitched props share an id.
C28_StoredIdsDistinct ==
    \A i, j \in DOMAIN disk.glitched_props :
       disk.glitched_props[i].id = disk.glitched_props[j].id => i = j

----------------------------------------------------------------------------
(* fetch_recent_games(player_name, stat_type, season, games)                *)
(*                                                                          *)
(* The call is a state machine: pc is "start" before the cache lookup,      *)
(* "try" at the head of the retry loop, "rows" when a request has           *)
(* succeeded, and "done".  ret holds the loop's variables: attempt, the     *)
(* outcomes of the requests made so far, the waits slept so far, and the    *)
(* value returned.  disk.cache holds the cache files as records of the      *)
(* key, the data and whether the timestamp is within CACHE_DURATION.        *)

max_retries == 5

retry_delay == 3

\* get_cache_key: the player, the stat type, the season and games.
get_cache_key(player_name, games) == <<player_name, "PTS", "2023-24", games>>

\* What a request to the provider can do: raise Timeout, ConnectionError or
\* another RequestException, raise another exception whose text mentions a
\* timeout, raise any other exception, or return a data frame that is
\* empty, lacks the stat column, or holds the rows of the game log.
RequestOutcomes ==
    { "Timeout", "ConnectionError", "RequestException", "timeout text",
      "other exception", "empty", "missing column", "rows" }

\* The outcomes caught by `except (Timeout, ConnectionError, RequestException)`
\* and those of `except Exception` whose text mentions a timeout.
IsRetried(outcome) ==
    outcome \in { "Timeout", "ConnectionError", "RequestException", "timeout text" }

IsException(outcome) ==
    outcome \in { "Timeout", "ConnectionError", "RequestException", "timeout text",
                  "other exception" }

\* The game log the provider holds, most recent first.
ProviderRows == << Game(34, 26, 9, 15), Game(12, 18, 4, 10) >>

\* df.head(games), converted row by row.
GameListOf(rows, games) == SubSeq(rows, 1, Min2(games, Len(rows)))

CacheFile(key, data, fresh) == [ key |-> key, data |-> data, fresh |-> fresh ]

Locals(attempt, outcomes, waits, value) ==
    [ attempt |-> attempt, outcomes |-> outcomes, waits |-> waits, value |-> value ]

InitFetch ==
    /\ fn = "fetch_recent_games"
    /\ args \in [ player_name : { "p1" }, player_found : BOOLEAN, games : { 1, 10 } ]
    /\ ret = Locals(0, <<>>, <<>>, Pending)
    /\ pc = "start"
    /\ \E files \in { {},
                      { CacheFile(get_cache_key("p1", 10), ProviderRows, TRUE) },
                      { CacheFile(get_cache_key("p1", 10), ProviderRows, FALSE) } } :
          disk = [ NoFiles EXCEPT !.cache = files ]

CacheFilesOf(key) == { f \in disk.cache : f.key = key }

\* get_cached_data finds a valid cache file: its data is returned.
ReturnCached ==
    /\ fn = "fetch_recent_games" /\ pc = "start"
    /\ \E f \in CacheFilesOf(get_cache_key(args.player_name, args.games)) :
          /\ f.fresh
          /\ ret' = [ ret EXCEPT !.value = f.data ]
    /\ pc' = "done"
    /\ UNCHANGED <<fn, args, disk>>

\* No valid cache file (an expired one is removed): the player id is looked
\* up; without an id None is returned.
LookUpPlayer ==
    /\ fn = "fetch_recent_games" /\ pc = "start"
    /\ \A f \in CacheFilesOf(get_cache_key(args.player_name, args.games)) : ~ f.fresh
    /\ disk' = [ disk EXCEPT !.cache =
                   @ \ CacheFilesOf(get_cache_key(args.player_name, args.games)) ]
    /\ IF args.player_found
       THEN pc' = "try" /\ UNCHANGED ret
       ELSE pc' = "done" /\ ret' = [ ret EXCEPT !.value = PyNone ]
    /\ UNCHANGED <<fn, args>>

\* One pass of `for attempt in range(max_retries)`: the request and its
\* exception handlers.
Request ==
    /\ fn = "fetch_recent_games" /\ pc = "try"
    /\ ret.attempt < max_retries
    /\ \E outcome \in RequestOutcomes :
          IF ~ IsException(outcome)
          THEN /\ pc' = "rows"
               /\ ret' = [ ret EXCEPT !.outcomes = Append(@, outcome) ]
          ELSE IF IsRetried(outcome) /\ ret.attempt < max_retries - 1
          THEN /\ pc' = "try"
               /\ ret' = [ ret EXCEPT !.outcomes = Append(@, outcome),
                                      !.waits = Append(@, retry_delay * 2 ^ ret.attempt),
                                      !.attempt = @ + 1 ]
          ELSE /\ pc' = "done"
               /\ ret' = [ ret EXCEPT !.outcomes = Append(@, outcome),
                                      !.value = PyNone ]
    /\ UNCHANGED <<fn, args, disk>>

\* After the loop: an empty frame or a missing column returns None; else the
\* game list is built, cached and returned.
BuildGameList ==
    /\ fn = "fetch_recent_games" /\ pc = "rows"
    /\ pc' = "done"
    /\ IF ret.outcomes[Len(ret.outcomes)] = "rows"
       THEN /\ ret' = [ ret EXCEPT !.value = GameListOf(ProviderRows, args.games) ]
            /\ disk' = [ disk EXCEPT !.cache =
                           (@ \ CacheFilesOf(get_cache_key(args.player_name, args.games)))
                           \cup { CacheFile(get_cache_key(args.player_name, args.games),
                                            GameListOf(ProviderRows, args.games), TRUE) } ]
       ELSE /\ ret' = [ ret EXCEPT !.value = PyNone ]
            /\ UNCHANGED disk
    /\ UNCHANGED <<fn, args>>

NextFetch == ReturnCached \/ LookUpPlayer \/ Request \/ BuildGameList

SpecFetch == InitFetch /\ [][NextFetch]_vars

FetchReturned == fn = "fetch_recent_games" /\ pc = "done"

\* The request failed with a timeout or a connection failure.
IsTimeoutOrConnection(outcome) ==
    outcome \in { "Timeout", "ConnectionError", "timeout text" }

\* The request failed with an error that is not a timeout.
IsNonTimeoutError(outcome) == outcome \in { "RequestException", "other exception" }

\* C27: a call ends after at most 5 requests; a timeout or connection
\* failure on attempts 1 to 4 is followed by a retry after 3, 6, 12, 24
\* seconds; a timeout on attempt 5 returns None; a non-timeout error returns
\* None at once, without a retry; and the cache is written only after a
\* request that produced a game list.
C27_RetriesOnlyTimeouts ==
    /\ fn = "fetch_recent_games" => Len(ret.outcomes) <= 5
    /\ FetchReturned =>
          /\ \A i \in DOMAIN ret.outcomes :
                /\ (i <= 4 /\ IsTimeoutOrConnection(ret.outcomes[i])) =>
                      /\ i < Len(ret.outcomes)
                      /\ ret.waits[i] = 3 * 2 ^ (i - 1)
                /\ (i = 5 /\ IsTimeoutOrConnection(ret.outcomes[i])) => ret.value = PyNone
                /\ IsNonTimeoutError(ret.outcomes[i]) =>
                      (i = Len(ret.outcomes) /\ ret.value = PyNone)
          /\ (\E f \in disk.cache : f.fresh /\ f.data = ret.value /\ ret.outcomes # <<>>)
                => ret.outcomes[Len(ret.outcomes)] = "rows"

----------------------------------------------------------------------------
(* The legs of the parlays get_edges_data returns *)

\* The parlays of every size in the recommendations of the view; none when
\* the view was empty and recommend_parlays was not called.
ReturnedParlays ==
    IF "2_man" \in DOMAIN ret.parlay_recommendations
    THEN UNION { { ret.parlay_recommendations[size][i] :
                     i \in DOMAIN ret.parlay_recommendations[size] } :
                 size \in {"2_man", "3_man", "4_man", "6_man"} }
    ELSE {}

\* The leg carries player, line and recommendation of the edge of the view's
\* record, and the odds -110.
LegCarriesEdge(leg, record) ==
    /\ leg.player = record.edge.player
    /\ leg.line = record.edge.line
    /\ leg.recommendation = record.edge.recommendation
    /\ leg.odds = -110

\* C30: every leg of every returned parlay carries the player, line and
\* recommendation of the edge it was built from and the odds -110, and the
\* legs of one parlay are built from distinct records of the
\* high-probability view.
C30_LegsCarryTheirEdges ==
    ViewReturned =>
        \A parlay \in ReturnedParlays :
           \E from \in [ DOMAIN parlay.bets -> DOMAIN ret.high_prob_props ] :
              /\ \A j, k \in DOMAIN parlay.bets : from[j] = from[k] => j = k
              /\ \A j \in DOMAIN parlay.bets :
                    LegCarriesEdge(parlay.bets[j], ret.high_prob_props[from[j]])

====
